---- MODULE Spec2Model ----
(***************************************************************************)
(* A model of the resource simulation core of openshift-hive-simulator:    *)
(* the behavior engine (configuration + per-resource overrides), the three *)
(* state machines (ClusterDeployment, AccountClaim, ProjectClaim) and the  *)
(* three reconcilers that drive them against the resource store.           *)
(*                                                                         *)
(* Durations are in seconds.  Probabilities and random samples are in      *)
(* units of 1/ProbScale, so that a probability p is the integer            *)
(* p * ProbScale and rng.Float64() yields an integer in 0..ProbScale-1.    *)
(*                                                                         *)
(* The resource store is an external collaborator: Status().Update         *)
(* persists the status part of the in-memory object, Update persists the   *)
(* spec part, and either call may fail.                                    *)
(***************************************************************************)
EXTENDS Integers, Sequences, FiniteSets, TLC

VARIABLES
    smConfig,   \* kind -> the configuration captured by that kind's state machine
    config,     \* kind -> the engine's current configuration (Engine.config)
    overrides,  \* the engine's override registry (Engine.overrides): key -> override
    cds,        \* store: <<namespace, name>> -> ClusterDeployment or NoObj
    acs,        \* store: <<namespace, name>> -> AccountClaim or NoObj
    pcs,        \* store: <<namespace, name>> -> ProjectClaim or NoObj
    secrets,    \* store: the set of <<namespace, name>> of the secrets that exist
    clock,      \* the Unix time, in seconds
    hist,       \* <<kind, namespace, name>> -> the states applied and persisted so far
    last,       \* what the last operation was given, did and returned
    calls       \* caller -> the engine call it is in, with its position and locals

vars == <<smConfig, config, overrides, cds, acs, pcs, secrets, clock, hist, last, calls>>

-----------------------------------------------------------------------------
(* Bounds of the model *)

\* the longest configured state sequence
MaxStates == 2
\* the longest configured failure scenario list
MaxScenarios == 2
\* the number of states one resource is given before its reconciliations stop
MaxHist == 3

-----------------------------------------------------------------------------
(* Values *)

Kinds == {"ClusterDeployment", "AccountClaim", "ProjectClaim"}

NoObj == [exists |-> FALSE]

\* corev1.ConditionStatus
ConditionTrue == "True"
ConditionFalse == "False"
ConditionUnknown == "Unknown"

\* a map lookup as Go does it: the zero value "" when the key is absent
Lookup(m, k) == IF k \in DOMAIN m THEN m[k] ELSE ""

\* the label that carries the correlation key (labels.ID) and the provider label
LabelID == "api.openshift.com/id"
LabelCloudProvider == "cloud-provider"

SeqMin(S) == CHOOSE i \in S : \A j \in S : i <= j

\* all sequences over S of length 0..n
SeqsUpTo(S, n) == UNION { [1..k -> S] : k \in 0..n }

-----------------------------------------------------------------------------
(* config.DefaultConfig *)

StateConfig(n, d, c) == [name |-> n, dur |-> d, conds |-> c]
ConditionConfig(t, s, r, m) == [type |-> t, status |-> s, reason |-> r, message |-> m]

DefaultClusterDeploymentConfig ==
    [ defaultDelaySeconds |-> 5,
      states |-> <<
        StateConfig("Pending", 1, <<>>),
        StateConfig("Provisioning", 2,
            <<ConditionConfig("DeprovisionLaunchError", "False", "Provisioning", "Cluster is provisioning")>>),
        StateConfig("Installing", 1,
            <<ConditionConfig("DNSNotReady", "False", "DNSReady", "DNS is ready")>>),
        StateConfig("Running", 1,
            <<ConditionConfig("ClusterDeploymentCompleted", "True", "ClusterDeploymentCompleted", "Cluster deployment is complete")>>) >>,
      failures |-> <<>>,
      dependsOnAccountClaim |-> TRUE,
      dependsOnProjectClaim |-> TRUE ]

DefaultAccountClaimConfig ==
    [ defaultDelaySeconds |-> 3,
      states |-> << StateConfig("Pending", 2, <<>>), StateConfig("Ready", 1, <<>>) >>,
      failures |-> <<>>,
      dependsOnAccountClaim |-> FALSE,
      dependsOnProjectClaim |-> FALSE ]

DefaultProjectClaimConfig ==
    [ defaultDelaySeconds |-> 4,
      states |-> << StateConfig("Pending", 1, <<>>), StateConfig("PendingProject", 2, <<>>),
                    StateConfig("Ready", 1, <<>>) >>,
      failures |-> <<>>,
      dependsOnAccountClaim |-> FALSE,
      dependsOnProjectClaim |-> FALSE ]

DefaultConfig ==
    [k \in Kinds |->
        CASE k = "ClusterDeployment" -> DefaultClusterDeploymentConfig
          [] k = "AccountClaim" -> DefaultAccountClaimConfig
          [] k = "ProjectClaim" -> DefaultProjectClaimConfig]

-----------------------------------------------------------------------------
(* The ClusterDeployment state machine *)

\* the state one condition stands for in getCurrentState, "" when it stands for none
ConditionState(c) ==
    CASE c.type = "ClusterDeploymentCompleted" /\ c.status = ConditionTrue -> "Running"
      [] c.type = "DNSNotReady" /\ c.status = ConditionFalse -> "Installing"
      [] c.type = "DeprovisionLaunchError" /\ c.status = ConditionFalse -> "Provisioning"
      [] OTHER -> ""

getCurrentState(cd) ==
    IF cd.installed THEN "Running"
    ELSE LET hits == {i \in 1..Len(cd.conditions) : ConditionState(cd.conditions[i]) # ""}
         IN  IF hits # {} THEN ConditionState(cd.conditions[SeqMin(hits)])
             ELSE IF cd.provisionRef # "" THEN "Provisioning"
             ELSE "Pending"

\* the first index of states whose entry the loop of GetNextState stops at, 0 if none
CDMatch(states, currentState) ==
    LET m == {i \in 1..Len(states) : states[i].name = currentState}
    IN  IF m = {} THEN 0 ELSE SeqMin(m)

\* GetNextState keeping the last entry's configured duration
CDGetNextStateLastDuration(cfg, cd) ==
    LET currentState == getCurrentState(cd)
        i == CDMatch(cfg.states, currentState)
    IN  IF i # 0
        THEN IF i >= Len(cfg.states)
             THEN [state |-> currentState, duration |-> cfg.states[i].dur]
             ELSE [state |-> cfg.states[i + 1].name, duration |-> cfg.states[i + 1].dur]
        ELSE IF Len(cfg.states) > 0
             THEN [state |-> cfg.states[1].name, duration |-> cfg.states[1].dur]
             ELSE [state |-> "Pending", duration |-> 5]

CDGetNextState(cfg, cd) ==
    LET currentState == getCurrentState(cd)
        i == CDMatch(cfg.states, currentState)
    IN  IF i # 0
        THEN IF i >= Len(cfg.states)
             THEN [state |-> currentState, duration |-> 0]
             ELSE [state |-> cfg.states[i + 1].name, duration |-> cfg.states[i + 1].dur]
        ELSE IF Len(cfg.states) > 0
             THEN [state |-> cfg.states[1].name, duration |-> cfg.states[1].dur]
             ELSE [state |-> "Pending", duration |-> 5]

buildConditions(stateConfig) ==
    [i \in 1..Len(stateConfig.conds) |->
        [ type |-> stateConfig.conds[i].type,
          status |-> CASE stateConfig.conds[i].status = "True" -> ConditionTrue
                       [] stateConfig.conds[i].status = "False" -> ConditionFalse
                       [] OTHER -> ConditionUnknown,
          reason |-> stateConfig.conds[i].reason,
          message |-> stateConfig.conds[i].message ]]

WebConsoleURL(name) == "https://console-openshift-console.apps." \o name \o ".example.com"
APIURL(name) == "https://api." \o name \o ".example.com:6443"

\* ApplyState that leaves the infra id of a running cluster unset
CDApplyStateNoInfraID(cfg, cd, state) ==
    LET i == CDMatch(cfg.states, state)
    IN  IF i = 0 THEN [err |-> "state not found", obj |-> cd]
        ELSE LET c1 == [cd EXCEPT !.conditions = buildConditions(cfg.states[i])]
                 c2 == CASE state = "Provisioning" ->
                              [c1 EXCEPT !.provisionRef = cd.name \o "-provision"]
                         [] state = "Running" ->
                              [c1 EXCEPT !.installed = TRUE, !.installedTimestamp = TRUE]
                         [] OTHER -> c1
             IN  [err |-> "", obj |-> c2]

\* ApplyState on the in-memory object: [err, obj]
CDApplyState(cfg, cd, state) ==
    LET i == CDMatch(cfg.states, state)
    IN  IF i = 0 THEN [err |-> "state not found", obj |-> cd]
        ELSE LET c1 == [cd EXCEPT !.conditions = buildConditions(cfg.states[i])]
                 c2 == CASE state = "Provisioning" ->
                              [c1 EXCEPT !.provisionRef = cd.name \o "-provision"]
                         [] state = "Installing" ->
                              [c1 EXCEPT !.webConsoleURL = WebConsoleURL(cd.name),
                                         !.apiURL = APIURL(cd.name)]
                         [] state = "Running" ->
                              [c1 EXCEPT !.installed = TRUE,
                                         !.installedTimestamp = TRUE,
                                         !.infraID = cd.name \o "-infra",
                                         !.webConsoleURL = WebConsoleURL(cd.name),
                                         !.apiURL = APIURL(cd.name)]
                         [] OTHER -> c1
             IN  [err |-> "", obj |-> c2]

\* the condition ApplyFailure builds from a failure scenario
FailureCondition(failure) ==
    [ type |-> failure.condition, status |-> ConditionTrue,
      reason |-> failure.reason, message |-> failure.message ]

\* ApplyFailure that replaces the condition list by the failure condition
CDApplyFailureReplace(cd, failure) ==
    [cd EXCEPT !.conditions = <<FailureCondition(failure)>>,
               !.provisionRef = cd.name \o "-provision-failed"]

CDApplyFailure(cd, failure) ==
    [cd EXCEPT !.conditions = Append(cd.conditions, FailureCondition(failure)),
               !.provisionRef = cd.name \o "-provision-failed"]

ShouldWaitForDependencies(cfg) == cfg.dependsOnAccountClaim \/ cfg.dependsOnProjectClaim

-----------------------------------------------------------------------------
(* The AccountClaim and ProjectClaim state machines *)

ClaimStatusPending == "Pending"
ClaimStatusPendingProject == "PendingProject"
ClaimStatusReady == "Ready"
ClaimStatusError == "Error"

\* the loop of a claim's GetNextState matching the stored state only
ClaimMatchStored(states, currentState) ==
    LET m == {i \in 1..Len(states) : currentState = states[i].name}
    IN  IF m = {} THEN 0 ELSE SeqMin(m)

\* the first index the loop of a claim's GetNextState stops at, 0 if none
ClaimMatch(states, currentState) ==
    LET m == {i \in 1..Len(states) :
                \/ currentState = states[i].name
                \/ (currentState = "" /\ states[i].name = "Pending")}
    IN  IF m = {} THEN 0 ELSE SeqMin(m)

\* GetNextState that leaves a claim in a state the sequence does not have
ClaimGetNextStateKeepUnknown(cfg, claim, fallback) ==
    LET i == ClaimMatch(cfg.states, claim.state)
    IN  IF i # 0
        THEN IF i >= Len(cfg.states)
             THEN [state |-> cfg.states[i].name, duration |-> 0]
             ELSE [state |-> cfg.states[i + 1].name, duration |-> cfg.states[i + 1].dur]
        ELSE IF Len(cfg.states) > 0 /\ claim.state = ""
             THEN [state |-> cfg.states[1].name, duration |-> cfg.states[1].dur]
             ELSE IF Len(cfg.states) > 0
             THEN [state |-> claim.state, duration |-> 0]
             ELSE [state |-> ClaimStatusPending, duration |-> fallback]

ClaimGetNextState(cfg, claim, fallback) ==
    LET i == ClaimMatch(cfg.states, claim.state)
    IN  IF i # 0
        THEN IF i >= Len(cfg.states)
             THEN [state |-> cfg.states[i].name, duration |-> 0]
             ELSE [state |-> cfg.states[i + 1].name, duration |-> cfg.states[i + 1].dur]
        ELSE IF Len(cfg.states) > 0
             THEN [state |-> cfg.states[1].name, duration |-> cfg.states[1].dur]
             ELSE [state |-> ClaimStatusPending, duration |-> fallback]

ACGetNextState(cfg, ac) == ClaimGetNextState(cfg, ac, 3)

PCGetNextState(cfg, pc) == ClaimGetNextState(cfg, pc, 4)

ClaimCondition(t, r, m) == [type |-> t, status |-> ConditionTrue, reason |-> r, message |-> m]

\* fmt.Sprintf("%03d", n) for 0 <= n < 1000
Pad3(n) == IF n < 10 THEN "00" \o ToString(n)
           ELSE IF n < 100 THEN "0" \o ToString(n)
           ELSE ToString(n)

\* fmt.Sprintf("123456789%03d", now % 1000), now the Unix time in seconds
AccountID(now) == "123456789" \o Pad3(now % 1000)

\* fmt.Sprintf("project-%s-%d", pc.Name, now % 10000)
ProjectID(name, now) == "project-" \o name \o "-" \o ToString(now % 10000)

\* ApplyState never fails for a claim and never reads the configuration
ACApplyState(ac, state, now) ==
    LET a1 == [ac EXCEPT !.state = state]
        a2 == CASE state = ClaimStatusPending ->
                     [a1 EXCEPT !.conditions =
                        <<ClaimCondition("AccountUnclaimed", "AccountPending", "Account claim is pending")>>]
                [] state = ClaimStatusReady ->
                     [a1 EXCEPT !.conditions =
                        <<ClaimCondition("AccountClaimed", "AccountClaimed", "Account has been claimed")>>,
                                !.cloudID = IF ac.cloudID = "" THEN AccountID(now) ELSE ac.cloudID]
                [] state = ClaimStatusError ->
                     [a1 EXCEPT !.conditions =
                        <<ClaimCondition("AccountClaimFailed", "ClaimFailed", "Account claim failed")>>]
                [] OTHER -> a1
    IN  [err |-> "", obj |-> a2]

\* ApplyState that synthesizes the project identifier anew each time
PCApplyStateFreshID(pc, state, now) ==
    LET p1 == [pc EXCEPT !.state = state]
        p2 == IF state \in {ClaimStatusPendingProject, ClaimStatusReady}
              THEN [p1 EXCEPT !.cloudID = ProjectID(pc.name, now)]
              ELSE p1
    IN  [err |-> "", obj |-> p2]

\* ApplyState whose Ready case synthesizes the project identifier anew
PCApplyStateReadyFreshID(pc, state, now) ==
    LET p1 == [pc EXCEPT !.state = state]
        p2 == CASE state = ClaimStatusPendingProject ->
                     [p1 EXCEPT !.cloudID = IF pc.cloudID = "" THEN ProjectID(pc.name, now)
                                             ELSE pc.cloudID]
                [] state = ClaimStatusReady -> [p1 EXCEPT !.cloudID = ProjectID(pc.name, now)]
                [] OTHER -> p1
    IN  [err |-> "", obj |-> p2]

PCApplyState(pc, state, now) ==
    LET p1 == [pc EXCEPT !.state = state]
        id == IF pc.cloudID = "" THEN ProjectID(pc.name, now) ELSE pc.cloudID
        p2 == CASE state = ClaimStatusPending ->
                     [p1 EXCEPT !.conditions =
                        <<ClaimCondition("Pending", "ProjectPending", "Project claim is pending")>>]
                [] state = ClaimStatusPendingProject ->
                     [p1 EXCEPT !.conditions =
                        <<ClaimCondition("PendingProject", "ProjectCreating", "GCP project is being created")>>,
                                !.cloudID = id]
                [] state = ClaimStatusReady ->
                     [p1 EXCEPT !.conditions =
                        <<ClaimCondition("Ready", "ProjectReady", "GCP project is ready")>>,
                                !.cloudID = id]
                [] state = ClaimStatusError ->
                     [p1 EXCEPT !.conditions =
                        <<ClaimCondition("Error", "ClaimFailed", "Project claim failed")>>]
                [] OTHER -> p1
    IN  [err |-> "", obj |-> p2]

ClaimApplyFailure(claim, failure) ==
    [claim EXCEPT !.state = ClaimStatusError,
                  !.conditions = Append(claim.conditions, FailureCondition(failure))]

-----------------------------------------------------------------------------
(* The behavior engine *)

\* units of probability: a probability p is the integer p * ProbScale
ProbScale == 100

FailureScenario(p, c, r, m) == [probability |-> p, condition |-> c, reason |-> r, message |-> m]

\* config.ResourceOverride; an unset pointer is <<>>, a set one <<value>>
ResourceOverride(n, delay, fail, success) ==
    [resourceName |-> n, delaySeconds |-> delay, forceFail |-> fail, forceSuccess |-> success]

makeKey(resourceType, namespace, name) == resourceType \o "/" \o namespace \o "/" \o name

NoFailure == [fail |-> FALSE, failure |-> <<>>]

\* the scenarios ShouldFail walks for a resource type
ScenariosOf(cfg, resourceType) ==
    IF resourceType \in Kinds THEN cfg[resourceType].failures ELSE <<>>

\* the walk with the comparison roll <= probability
ProbabilisticInclusive(scenarios, rolls) ==
    LET fired == {i \in 1..Len(scenarios) : rolls[i] <= scenarios[i].probability}
    IN  IF fired = {} THEN [fail |-> FALSE, failure |-> <<>>]
        ELSE [fail |-> TRUE, failure |-> <<scenarios[SeqMin(fired)]>>]

\* the walk that goes on after a scenario fired and returns the last one that did
ProbabilisticLastFired(scenarios, rolls) ==
    LET fired == {i \in 1..Len(scenarios) :
                    scenarios[i].probability > 0 /\ rolls[i] < scenarios[i].probability}
    IN  IF fired = {} THEN NoFailure
        ELSE [fail |-> TRUE,
              failure |-> <<scenarios[CHOOSE i \in fired : \A j \in fired : j <= i]>>]

\* the walk over the scenarios; rolls[i] is the sample drawn for scenario i
Probabilistic(scenarios, rolls) ==
    LET fired == {i \in 1..Len(scenarios) :
                    scenarios[i].probability > 0 /\ rolls[i] < scenarios[i].probability}
    IN  IF fired = {} THEN NoFailure
        ELSE [fail |-> TRUE, failure |-> <<scenarios[SeqMin(fired)]>>]

\* ShouldFail with the forced failure looked at before the success flag
ShouldFailForcedFirst(ovr, cfg, resourceType, namespace, name, rolls) ==
    LET key == makeKey(resourceType, namespace, name)
    IN  IF key \in DOMAIN ovr /\ ovr[key].forceFail # <<>>
        THEN [fail |-> TRUE, failure |-> ovr[key].forceFail]
        ELSE IF key \in DOMAIN ovr /\ ovr[key].forceSuccess THEN NoFailure
        ELSE Probabilistic(ScenariosOf(cfg, resourceType), rolls)

\* ShouldFail with the configured scenarios walked before the forced failure
ShouldFailScenariosFirst(ovr, cfg, resourceType, namespace, name, rolls) ==
    LET key == makeKey(resourceType, namespace, name)
        p == Probabilistic(ScenariosOf(cfg, resourceType), rolls)
    IN  IF key \in DOMAIN ovr /\ ovr[key].forceSuccess THEN NoFailure
        ELSE IF p.fail THEN p
        ELSE IF key \in DOMAIN ovr /\ ovr[key].forceFail # <<>>
             THEN [fail |-> TRUE, failure |-> ovr[key].forceFail]
        ELSE NoFailure

ShouldFail(ovr, cfg, resourceType, namespace, name, rolls) ==
    LET key == makeKey(resourceType, namespace, name)
    IN  IF key \in DOMAIN ovr /\ ovr[key].forceSuccess THEN NoFailure
        ELSE IF key \in DOMAIN ovr /\ ovr[key].forceFail # <<>>
             THEN [fail |-> TRUE, failure |-> ovr[key].forceFail]
        ELSE Probabilistic(ScenariosOf(cfg, resourceType), rolls)

GetTransitionDelay(ovr, resourceType, namespace, name, defaultDuration) ==
    LET key == makeKey(resourceType, namespace, name)
    IN  IF key \in DOMAIN ovr /\ ovr[key].delaySeconds # <<>>
        THEN ovr[key].delaySeconds[1]
        ELSE defaultDuration

\* a SetResourceOverride that forgets the overrides of the other resources
SetOverrideAlone(ovr, key, override) == [k \in {key} |-> override]

\* the registry after SetResourceOverride
\* a SetResourceOverride that merges the new override into the one stored
\* for the key, keeping every setting the new one does not make
SetOverrideMerge(ovr, key, override) ==
    [k \in DOMAIN ovr \cup {key} |->
        IF k # key THEN ovr[k]
        ELSE IF key \notin DOMAIN ovr THEN override
        ELSE [ resourceName |-> override.resourceName,
               delaySeconds |-> IF override.delaySeconds # <<>> THEN override.delaySeconds
                                ELSE ovr[key].delaySeconds,
               forceFail |-> IF override.forceFail # <<>> THEN override.forceFail
                             ELSE ovr[key].forceFail,
               forceSuccess |-> override.forceSuccess \/ ovr[key].forceSuccess ]]

SetOverride(ovr, key, override) ==
    [k \in DOMAIN ovr \cup {key} |-> IF k = key THEN override ELSE ovr[k]]

\* a ClearResourceOverride that only drops the forced failure and the success flag
ClearOverrideKeepDelay(ovr, key) ==
    [k \in DOMAIN ovr |->
        IF k = key THEN [ovr[k] EXCEPT !.forceFail = <<>>, !.forceSuccess = FALSE] ELSE ovr[k]]

\* the registry after ClearResourceOverride
ClearOverride(ovr, key) == [k \in DOMAIN ovr \ {key} |-> ovr[k]]

\* the goroutines that call the engine at the same time: a reconciler worker
\* and an API request, or two workers of different controllers
Callers == {1, 2}

\* a caller that is in no engine call
Idle == [op |-> "idle"]

NoCalls == [c \in Callers |-> Idle]

-----------------------------------------------------------------------------
(* The resource store *)

Namespaces == {"ns1", "ns2"}

CDKeys == {<<"ns1", "c1">>, <<"ns1", "c2">>}
ACKeys == {<<"ns1", "a1">>, <<"ns1", "a2">>, <<"ns2", "a1">>}
PCKeys == {<<"ns1", "p1">>, <<"ns1", "p2">>}

KeysOf(kind) ==
    CASE kind = "ClusterDeployment" -> CDKeys
      [] kind = "AccountClaim" -> ACKeys
      [] kind = "ProjectClaim" -> PCKeys

\* every resource identity of the store: <<kind, namespace, name>>
Resources == UNION {{<<k, key[1], key[2]>> : key \in KeysOf(k)} : k \in Kinds}

\* a ClusterDeployment as a client creates it
NewClusterDeployment(key, labels) ==
    [ exists |-> TRUE, ns |-> key[1], name |-> key[2], deleting |-> FALSE, labels |-> labels,
      installed |-> FALSE, infraID |-> "",
      conditions |-> <<>>, provisionRef |-> "", webConsoleURL |-> "", apiURL |-> "",
      installedTimestamp |-> FALSE ]

\* an AccountClaim or ProjectClaim as a client creates it; secretNamespace and
\* secretName are its credential secret reference, secretName "" when it names none
NewClaim(key, labels, secretNamespace, secretName) ==
    [ exists |-> TRUE, ns |-> key[1], name |-> key[2], deleting |-> FALSE, labels |-> labels,
      cloudID |-> "", secretNamespace |-> secretNamespace, secretName |-> secretName,
      state |-> "", conditions |-> <<>> ]

\* Status().Update: the status part of the in-memory object reaches the store
CDPersistStatus(stored, mem) ==
    [stored EXCEPT !.conditions = mem.conditions, !.provisionRef = mem.provisionRef,
                   !.webConsoleURL = mem.webConsoleURL, !.apiURL = mem.apiURL,
                   !.installedTimestamp = mem.installedTimestamp]

\* Update: the spec part of the in-memory object reaches the store
CDPersistSpec(stored, mem) ==
    [stored EXCEPT !.installed = mem.installed, !.infraID = mem.infraID]

ClaimPersistStatus(stored, mem) ==
    [stored EXCEPT !.state = mem.state, !.conditions = mem.conditions]

ClaimPersistSpec(stored, mem) == [stored EXCEPT !.cloudID = mem.cloudID]

\* the orders in which a List of the objects S may come back
ListOrders(S) ==
    {f \in [1..Cardinality(S) -> S] : \A i, j \in 1..Cardinality(S) : f[i] = f[j] => i = j}

\* a List that ignores the namespace
InAnyNamespace(store, ns) == {store[k] : k \in {x \in DOMAIN store : store[x].exists}}

\* the claims of one namespace
InNamespace(store, ns) == {store[k] : k \in {x \in DOMAIN store : store[x].exists /\ x[1] = ns}}

\* the points at which a call to the store may fail during one reconciliation;
\* "secretExists" is the Create that answers AlreadyExists because another
\* actor created the secret after the reconciler's Get found none
StoreFaults == {"none", "get", "list", "status", "spec", "secretGet", "secretCreate",
                "secretExists"}

\* the store calls a ClusterDeployment reconciliation makes, and a claim's
ClusterDeploymentFaults == StoreFaults \ {"secretGet", "secretCreate", "secretExists"}
ClaimFaults == StoreFaults \ {"list"}

-----------------------------------------------------------------------------
(* The ClusterDeployment reconciler *)

Result(requeueAfter, err) == [requeueAfter |-> requeueAfter, err |-> err]

\* a check that lists the claims before it looks for the correlation key
checkClaimListFirst(cd, list, fault) ==
    IF fault = "list"
    THEN [ready |-> FALSE, retry |-> 5, listed |-> TRUE]
    ELSE IF LabelID \notin DOMAIN cd.labels
    THEN [ready |-> TRUE, retry |-> 0, listed |-> TRUE]
    ELSE LET m == {i \in 1..Len(list) : Lookup(list[i].labels, LabelID) = cd.labels[LabelID]}
         IN  IF m = {} THEN [ready |-> FALSE, retry |-> 2, listed |-> TRUE]
             ELSE IF list[SeqMin(m)].state = ClaimStatusReady
                  THEN [ready |-> TRUE, retry |-> 0, listed |-> TRUE]
                  ELSE [ready |-> FALSE, retry |-> 2, listed |-> TRUE]

\* a check that retries a failed List as soon as a missing claim
checkClaimShortListRetry(cd, list, fault) ==
    IF LabelID \notin DOMAIN cd.labels
    THEN [ready |-> TRUE, retry |-> 0, listed |-> FALSE]
    ELSE IF fault = "list"
    THEN [ready |-> FALSE, retry |-> 2, listed |-> TRUE]
    ELSE LET m == {i \in 1..Len(list) : Lookup(list[i].labels, LabelID) = cd.labels[LabelID]}
         IN  IF m = {} THEN [ready |-> FALSE, retry |-> 2, listed |-> TRUE]
             ELSE IF list[SeqMin(m)].state = ClaimStatusReady
                  THEN [ready |-> TRUE, retry |-> 0, listed |-> TRUE]
                  ELSE [ready |-> FALSE, retry |-> 2, listed |-> TRUE]

\* a check that lets the ClusterDeployment go on once its claim has ended,
\* be it in Ready or in Error
checkClaimFinalIsReady(cd, list, fault) ==
    IF LabelID \notin DOMAIN cd.labels
    THEN [ready |-> TRUE, retry |-> 0, listed |-> FALSE]
    ELSE IF fault = "list"
    THEN [ready |-> FALSE, retry |-> 5, listed |-> TRUE]
    ELSE LET m == {i \in 1..Len(list) : Lookup(list[i].labels, LabelID) = cd.labels[LabelID]}
         IN  IF m = {} THEN [ready |-> FALSE, retry |-> 2, listed |-> TRUE]
             ELSE IF list[SeqMin(m)].state \in {ClaimStatusReady, ClaimStatusError}
                  THEN [ready |-> TRUE, retry |-> 0, listed |-> TRUE]
                  ELSE [ready |-> FALSE, retry |-> 2, listed |-> TRUE]

\* checkAccountClaim and checkProjectClaim: list is what List returned, in order
checkClaim(cd, list, fault) ==
    IF LabelID \notin DOMAIN cd.labels
    THEN [ready |-> TRUE, retry |-> 0, listed |-> FALSE]
    ELSE IF fault = "list"
    THEN [ready |-> FALSE, retry |-> 5, listed |-> TRUE]
    ELSE LET m == {i \in 1..Len(list) : Lookup(list[i].labels, LabelID) = cd.labels[LabelID]}
         IN  IF m = {} THEN [ready |-> FALSE, retry |-> 2, listed |-> TRUE]
             ELSE IF list[SeqMin(m)].state = ClaimStatusReady
                  THEN [ready |-> TRUE, retry |-> 0, listed |-> TRUE]
                  ELSE [ready |-> FALSE, retry |-> 2, listed |-> TRUE]

checkAccountClaim(cd, acList, fault) == checkClaim(cd, acList, fault)

checkProjectClaim(cd, pcList, fault) == checkClaim(cd, pcList, fault)

\* checkDependencies reads the engine's current configuration; listed is the
\* set of kinds List was called for, listErr whether a call of List failed
checkDependencies(cfg, cd, acList, pcList, fault) ==
    LET cloudProvider == Lookup(cd.labels, LabelCloudProvider)
        doAC == cfg.dependsOnAccountClaim /\ (cloudProvider = "aws" \/ cloudProvider = "")
        doPC == cfg.dependsOnProjectClaim /\ cloudProvider = "gcp"
        ac == checkAccountClaim(cd, acList, fault)
        pc == checkProjectClaim(cd, pcList, fault)
        acListed == IF doAC /\ ac.listed THEN {"AccountClaim"} ELSE {}
        pcListed == IF doPC /\ pc.listed THEN {"ProjectClaim"} ELSE {}
    IN  IF doAC /\ ~ac.ready
        THEN [ready |-> FALSE, retry |-> ac.retry, checked |-> {"AccountClaim"},
              listed |-> acListed, listErr |-> (acListed # {} /\ fault = "list")]
        ELSE IF doPC /\ ~pc.ready
        THEN [ready |-> FALSE, retry |-> pc.retry,
              checked |-> (IF doAC THEN {"AccountClaim"} ELSE {}) \cup {"ProjectClaim"},
              listed |-> acListed \cup pcListed,
              listErr |-> (pcListed # {} /\ fault = "list")]
        ELSE [ready |-> TRUE, retry |-> 0,
              checked |-> (IF doAC THEN {"AccountClaim"} ELSE {}) \cup
                          (IF doPC THEN {"ProjectClaim"} ELSE {}),
              listed |-> acListed \cup pcListed, listErr |-> FALSE]

\* what one reconciliation observed and did; obj is the stored object afterwards
Outcome(pre) ==
    [ pre |-> pre, obj |-> pre, result |-> Result(0, ""), consulted |-> FALSE,
      dep |-> <<>>, next |-> <<>>, applied |-> "", failure |-> <<>>,
      writes |-> {}, secret |-> <<>> ]

\* a requeue decision that asks the engine for the delay whatever the nominal
\* duration is
RequeueConsultFirst(ovr, kind, obj, duration) ==
    Result(GetTransitionDelay(ovr, kind, obj.ns, obj.name, duration), "")

\* the requeue decision that ends a successful state application
Requeue(ovr, kind, obj, duration) ==
    IF duration > 0
    THEN Result(GetTransitionDelay(ovr, kind, obj.ns, obj.name, duration), "")
    ELSE Result(0, "")

\* the outcome of a reconciliation whose dependencies are not ready, with a
\* retry that ignores the one the check suggested
WaitForDependenciesFixedRetry(o, dep) == [o EXCEPT !.result = Result(2, "")]

\* the outcome of a reconciliation whose dependencies are not ready: nothing
\* but the requeue the check suggested
WaitForDependencies(o, dep) == [o EXCEPT !.result = Result(dep.retry, "")]

\* a reconciliation that skips deleted objects only
CDSkipDeleted(cd) == ~cd.exists \/ cd.deleting

\* the fetched object ends the reconciliation at once: not found, being
\* deleted, or already installed
CDSkip(cd) == ~cd.exists \/ cd.deleting \/ cd.installed

\* a reconciliation that checks the dependencies before it asks the engine
\* whether the resource fails
CDReconcileDependenciesFirst(cd, ovr, cfg, smc, fault, rolls, acList, pcList) ==
    LET o == Outcome(cd)
    IN  IF fault = "get" THEN [o EXCEPT !.result = Result(0, "get")]
        ELSE IF CDSkip(cd) THEN o
        ELSE
        LET wait == ShouldWaitForDependencies(smc)
            dep == checkDependencies(cfg["ClusterDeployment"], cd, acList, pcList, fault)
            od == IF wait THEN [o EXCEPT !.dep = <<dep>>] ELSE o
        IN  IF wait /\ ~dep.ready
            THEN WaitForDependencies(od, dep)
            ELSE
            LET sf == ShouldFail(ovr, cfg, "ClusterDeployment", cd.ns, cd.name, rolls)
                oc == [od EXCEPT !.consulted = TRUE]
            IN  IF sf.fail
                THEN IF fault = "status"
                     THEN [oc EXCEPT !.failure = sf.failure, !.result = Result(0, "status")]
                     ELSE [oc EXCEPT !.failure = sf.failure,
                                     !.obj = CDPersistStatus(cd, CDApplyFailure(cd, sf.failure[1])),
                                     !.writes = {"status"}]
                ELSE
                LET next == CDGetNextState(smc, cd)
                    ap == CDApplyState(smc, cd, next.state)
                    on == [oc EXCEPT !.next = <<next>>]
                    st == CDPersistStatus(cd, ap.obj)
                IN  IF ap.err # "" THEN [on EXCEPT !.result = Result(0, ap.err)]
                    ELSE IF fault = "status" THEN [on EXCEPT !.result = Result(0, "status")]
                    ELSE IF ap.obj.installed /\ fault = "spec"
                    THEN [on EXCEPT !.obj = st, !.writes = {"status"}, !.applied = next.state,
                                    !.result = Result(0, "spec")]
                    ELSE [on EXCEPT
                            !.obj = IF ap.obj.installed THEN CDPersistSpec(st, ap.obj) ELSE st,
                            !.writes = IF ap.obj.installed THEN {"status", "spec"} ELSE {"status"},
                            !.applied = next.state,
                            !.result = Requeue(ovr, "ClusterDeployment", cd, next.duration)]

\* ClusterDeploymentReconciler.Reconcile, from the fetch to the returned result
CDReconcile(cd, ovr, cfg, smc, fault, rolls, acList, pcList) ==
    LET o == Outcome(cd)
    IN  IF fault = "get" THEN [o EXCEPT !.result = Result(0, "get")]
        ELSE IF CDSkip(cd) THEN o
        ELSE
        LET sf == ShouldFail(ovr, cfg, "ClusterDeployment", cd.ns, cd.name, rolls)
            oc == [o EXCEPT !.consulted = TRUE]
        IN  IF sf.fail
            THEN \* applyFailure
                 IF fault = "status"
                 THEN [oc EXCEPT !.failure = sf.failure, !.result = Result(0, "status")]
                 ELSE [oc EXCEPT !.failure = sf.failure,
                                 !.obj = CDPersistStatus(cd, CDApplyFailure(cd, sf.failure[1])),
                                 !.writes = {"status"}]
            ELSE
            LET wait == ShouldWaitForDependencies(smc)
                dep == checkDependencies(cfg["ClusterDeployment"], cd, acList, pcList, fault)
                od == IF wait THEN [oc EXCEPT !.dep = <<dep>>] ELSE oc
            IN  IF wait /\ ~dep.ready
                THEN WaitForDependencies(od, dep)
                ELSE
                LET next == CDGetNextState(smc, cd)
                    ap == CDApplyState(smc, cd, next.state)
                    on == [od EXCEPT !.next = <<next>>]
                    st == CDPersistStatus(cd, ap.obj)
                IN  IF ap.err # "" THEN [on EXCEPT !.result = Result(0, ap.err)]
                    ELSE IF fault = "status" THEN [on EXCEPT !.result = Result(0, "status")]
                    ELSE IF ap.obj.installed /\ fault = "spec"
                    THEN [on EXCEPT !.obj = st, !.writes = {"status"}, !.applied = next.state,
                                    !.result = Result(0, "spec")]
                    ELSE [on EXCEPT
                            !.obj = IF ap.obj.installed THEN CDPersistSpec(st, ap.obj) ELSE st,
                            !.writes = IF ap.obj.installed THEN {"status", "spec"} ELSE {"status"},
                            !.applied = next.state,
                            !.result = Requeue(ovr, "ClusterDeployment", cd, next.duration)]

-----------------------------------------------------------------------------
(* The AccountClaim and ProjectClaim reconcilers *)

\* createAWSCredentialsSecret / createGCPCredentialsSecret: [err, created,
\* raced]; raced: the secret was created by another actor between the Get and
\* the Create, and the Create's AlreadyExists error is returned as it is
createCredentialsSecret(claim, existing, fault) ==
    IF fault = "secretGet" THEN [err |-> "secretGet", created |-> FALSE, raced |-> FALSE]
    ELSE IF <<claim.secretNamespace, claim.secretName>> \in existing
    THEN [err |-> "", created |-> FALSE, raced |-> FALSE]
    ELSE IF fault = "secretCreate" THEN [err |-> "secretCreate", created |-> FALSE, raced |-> FALSE]
    ELSE IF fault = "secretExists" THEN [err |-> "secretExists", created |-> FALSE, raced |-> TRUE]
    ELSE [err |-> "", created |-> TRUE, raced |-> FALSE]

\* the fetched claim ends the reconciliation at once: not found, being
\* deleted, or already in a final state
ClaimSkip(claim) ==
    \/ ~claim.exists
    \/ claim.deleting
    \/ claim.state = ClaimStatusReady \/ claim.state = ClaimStatusError

\* AccountClaimReconciler.Reconcile and ProjectClaimReconciler.Reconcile
ClaimReconcile(kind, claim, ovr, cfg, smc, existing, fault, rolls, now) ==
    LET o == Outcome(claim)
    IN  IF fault = "get" THEN [o EXCEPT !.result = Result(0, "get")]
        ELSE IF ClaimSkip(claim) THEN o
        ELSE
        LET sf == ShouldFail(ovr, cfg, kind, claim.ns, claim.name, rolls)
            oc == [o EXCEPT !.consulted = TRUE]
        IN  IF sf.fail
            THEN IF fault = "status"
                 THEN [oc EXCEPT !.failure = sf.failure, !.result = Result(0, "status")]
                 ELSE [oc EXCEPT !.failure = sf.failure,
                                 !.obj = ClaimPersistStatus(claim, ClaimApplyFailure(claim, sf.failure[1])),
                                 !.writes = {"status"}]
            ELSE
            LET next == IF kind = "AccountClaim" THEN ACGetNextState(smc, claim)
                        ELSE PCGetNextState(smc, claim)
                ap == IF kind = "AccountClaim" THEN ACApplyState(claim, next.state, now)
                      ELSE PCApplyState(claim, next.state, now)
                on == [oc EXCEPT !.next = <<next>>]
                st == ClaimPersistStatus(claim, ap.obj)
                sp == ClaimPersistSpec(st, ap.obj)
                sec == createCredentialsSecret(claim, existing, fault)
                done == [on EXCEPT !.obj = sp, !.writes = {"status", "spec"},
                                   !.applied = next.state]
            IN  IF ap.err # "" THEN [on EXCEPT !.result = Result(0, ap.err)]
                ELSE IF fault = "status" THEN [on EXCEPT !.result = Result(0, "status")]
                ELSE IF fault = "spec"
                THEN [on EXCEPT !.obj = st, !.writes = {"status"}, !.applied = next.state,
                                !.result = Result(0, "spec")]
                ELSE IF next.state = ClaimStatusReady /\ claim.secretName # "" /\ sec.err # ""
                THEN [done EXCEPT !.result = Result(0, sec.err),
                                  !.secret = IF sec.raced
                                             THEN <<<<claim.secretNamespace, claim.secretName>>>>
                                             ELSE <<>>]
                ELSE IF next.state = ClaimStatusReady /\ claim.secretName # "" /\ sec.created
                THEN [done EXCEPT !.secret = <<<<claim.secretNamespace, claim.secretName>>>>,
                                  !.writes = {"status", "spec", "secret"},
                                  !.result = Requeue(ovr, kind, claim, next.duration)]
                ELSE [done EXCEPT !.result = Requeue(ovr, kind, claim, next.duration)]

-----------------------------------------------------------------------------
(* Inputs *)

\* the samples rng.Float64() may return, in units of 1/ProbScale
Rolls == {0, 49, 50, 99}

\* the sample sequences one call of ShouldFail may draw for a resource type
RollSeqs(cfg, resourceType) == [1..Len(ScenariosOf(cfg, resourceType)) -> Rolls]

\* the Unix times the clock shows
Times == {1700000007, 1700012042}

StartTime == SeqMin(Times)

\* the mark a failure application leaves in hist
FailureMark == "<failure>"

-----------------------------------------------------------------------------
(* Actions: the reconcilers *)

\* the store, the history and the observation after a reconciliation
Commit(kind, key, out) ==
    LET id == <<kind, key[1], key[2]>>
        entry == IF "status" \in out.writes
                 THEN (IF out.failure # <<>> THEN <<FailureMark>> ELSE <<out.applied>>)
                 ELSE <<>>
    IN  /\ hist' = [hist EXCEPT ![id] = @ \o entry]
        /\ secrets' = secrets \cup {out.secret[i] : i \in 1..Len(out.secret)}
        /\ last' = [ op |-> "Reconcile", kind |-> kind, key |-> key,
                     pre |-> out.pre, obj |-> out.obj, result |-> out.result,
                     consulted |-> out.consulted, dep |-> out.dep, next |-> out.next,
                     applied |-> out.applied, failure |-> out.failure, writes |-> out.writes ]
        /\ UNCHANGED <<calls, smConfig, config, overrides, clock>>

ReconcileClusterDeployment(key) ==
    /\ Len(hist[<<"ClusterDeployment", key[1], key[2]>>]) < MaxHist
    /\ \E fault \in ClusterDeploymentFaults, rolls \in RollSeqs(config, "ClusterDeployment") :
       \E acList \in ListOrders(InNamespace(acs, key[1])),
          pcList \in ListOrders(InNamespace(pcs, key[1])) :
            LET out == CDReconcile(cds[key], overrides, config, smConfig["ClusterDeployment"],
                                   fault, rolls, acList, pcList)
            IN  /\ cds' = [cds EXCEPT ![key] = out.obj]
                /\ Commit("ClusterDeployment", key, out)
                /\ UNCHANGED <<acs, pcs>>

ReconcileAccountClaim(key) ==
    /\ Len(hist[<<"AccountClaim", key[1], key[2]>>]) < MaxHist
    /\ \E fault \in ClaimFaults, rolls \in RollSeqs(config, "AccountClaim") :
            LET out == ClaimReconcile("AccountClaim", acs[key], overrides, config,
                                      smConfig["AccountClaim"], secrets, fault, rolls, clock)
            IN  /\ acs' = [acs EXCEPT ![key] = out.obj]
                /\ Commit("AccountClaim", key, out)
                /\ UNCHANGED <<cds, pcs>>

ReconcileProjectClaim(key) ==
    /\ Len(hist[<<"ProjectClaim", key[1], key[2]>>]) < MaxHist
    /\ \E fault \in ClaimFaults, rolls \in RollSeqs(config, "ProjectClaim") :
            LET out == ClaimReconcile("ProjectClaim", pcs[key], overrides, config,
                                      smConfig["ProjectClaim"], secrets, fault, rolls, clock)
            IN  /\ pcs' = [pcs EXCEPT ![key] = out.obj]
                /\ Commit("ProjectClaim", key, out)
                /\ UNCHANGED <<cds, acs>>

-----------------------------------------------------------------------------
(* Actions: the behavior engine *)

SetResourceOverride(resourceType, namespace, name, override) ==
    /\ overrides' = SetOverride(overrides, makeKey(resourceType, namespace, name), override)
    /\ last' = [ op |-> "SetResourceOverride",
                 key |-> makeKey(resourceType, namespace, name), override |-> override ]
    /\ UNCHANGED <<calls, smConfig, config, cds, acs, pcs, secrets, clock, hist>>

ClearResourceOverride(resourceType, namespace, name) ==
    /\ overrides' = ClearOverride(overrides, makeKey(resourceType, namespace, name))
    /\ last' = [ op |-> "ClearResourceOverride", resourceType |-> resourceType,
                 namespace |-> namespace, name |-> name,
                 key |-> makeKey(resourceType, namespace, name),
                 removed |-> IF makeKey(resourceType, namespace, name) \in DOMAIN overrides
                             THEN <<overrides[makeKey(resourceType, namespace, name)]>>
                             ELSE <<>> ]
    /\ UNCHANGED <<calls, smConfig, config, cds, acs, pcs, secrets, clock, hist>>

ClearAllOverrides ==
    /\ overrides' = <<>>
    /\ last' = [op |-> "ClearAllOverrides", removed |-> DOMAIN overrides]
    /\ UNCHANGED <<calls, smConfig, config, cds, acs, pcs, secrets, clock, hist>>

\* a caller evaluates ShouldFail
CallShouldFail(resourceType, namespace, name) ==
    /\ \E rolls \in RollSeqs(config, resourceType) :
        last' = [ op |-> "ShouldFail", resourceType |-> resourceType,
                  namespace |-> namespace, name |-> name,
                  ret |-> ShouldFail(overrides, config, resourceType, namespace, name, rolls) ]
    /\ UNCHANGED <<calls, smConfig, config, overrides, cds, acs, pcs, secrets, clock, hist>>

\* a caller evaluates GetTransitionDelay
CallGetTransitionDelay(resourceType, namespace, name, defaultDuration) ==
    /\ last' = [ op |-> "GetTransitionDelay", resourceType |-> resourceType,
                 namespace |-> namespace, name |-> name, defaultDuration |-> defaultDuration,
                 ret |-> GetTransitionDelay(overrides, resourceType, namespace, name,
                                            defaultDuration) ]
    /\ UNCHANGED <<calls, smConfig, config, overrides, cds, acs, pcs, secrets, clock, hist>>

-----------------------------------------------------------------------------
(* Actions: the clients of the store, and time *)

\* time passes
Tick ==
    /\ \E t \in Times : t > clock /\ clock' = t
    /\ last' = [op |-> "Tick"]
    /\ UNCHANGED <<calls, smConfig, config, overrides, cds, acs, pcs, secrets, hist>>

\* a client deletes an object: the deletion timestamp is set
MarkDeleted(kind, key) ==
    /\ CASE kind = "ClusterDeployment" ->
              /\ cds[key].exists /\ ~cds[key].deleting
              /\ cds' = [cds EXCEPT ![key].deleting = TRUE]
              /\ UNCHANGED <<acs, pcs>>
         [] kind = "AccountClaim" ->
              /\ acs[key].exists /\ ~acs[key].deleting
              /\ acs' = [acs EXCEPT ![key].deleting = TRUE]
              /\ UNCHANGED <<cds, pcs>>
         [] kind = "ProjectClaim" ->
              /\ pcs[key].exists /\ ~pcs[key].deleting
              /\ pcs' = [pcs EXCEPT ![key].deleting = TRUE]
              /\ UNCHANGED <<cds, acs>>
    /\ last' = [op |-> "MarkDeleted", kind |-> kind, key |-> key]
    /\ UNCHANGED <<calls, smConfig, config, overrides, secrets, clock, hist>>

-----------------------------------------------------------------------------
(* The behavior engine on its own: configurations, overrides and queries *)

\* the probabilities a generated failure scenario may carry: 0.0, 0.5, 1.0
Probabilities == {0, ProbScale \div 2, ProbScale}

ConfiguredScenarios ==
    {FailureScenario(p, "ProvisionFailed", "Simulated", "simulated failure") : p \in Probabilities}

\* the scenario a forced failure carries
ForcedScenario == FailureScenario(0, "InstallFailed", "Forced", "forced failure")

ScenarioLists == SeqsUpTo(ConfiguredScenarios, MaxScenarios)

\* the resource identities the engine is asked about; the last one is the
\* lower-case spelling of the resource type
EngineTargets ==
    { <<"ClusterDeployment", "ns1", "c1">>, <<"ClusterDeployment", "ns1", "c2">>,
      <<"clusterdeployment", "ns1", "c1">> }

\* the resource identities overrides are registered for
OverrideTargets == { <<"ClusterDeployment", "ns1", "c1">>, <<"clusterdeployment", "ns1", "c1">> }

OverrideDelays == {<<>>, <<30>>}

OverrideValues ==
    { ResourceOverride(t[3], delay, fail, success) :
        t \in OverrideTargets, delay \in OverrideDelays,
        fail \in {<<>>, <<ForcedScenario>>}, success \in BOOLEAN }

\* the nominal durations handed to GetTransitionDelay
NominalDurations == {0, 5}

EmptyStore ==
    /\ cds = [k \in CDKeys |-> NoObj]
    /\ acs = [k \in ACKeys |-> NoObj]
    /\ pcs = [k \in PCKeys |-> NoObj]
    /\ secrets = {}
    /\ clock = StartTime
    /\ hist = [r \in Resources |-> <<>>]

\* NewEngine(cfg): no overrides; cfg is the default but for one kind's scenarios
InitEngine ==
    /\ \E sl \in ScenarioLists :
         config = [DefaultConfig EXCEPT !["ClusterDeployment"].failures = sl]
    /\ smConfig = config
    /\ overrides = <<>>
    /\ EmptyStore
    /\ last = [op |-> "NewEngine"]
    /\ calls = NoCalls

NextEngine ==
    \/ \E t \in OverrideTargets, o \in OverrideValues :
         o.resourceName = t[3] /\ SetResourceOverride(t[1], t[2], t[3], o)
    \/ \E t \in EngineTargets : ClearResourceOverride(t[1], t[2], t[3])
    \/ ClearAllOverrides
    \/ \E t \in EngineTargets : CallShouldFail(t[1], t[2], t[3])
    \/ \E t \in EngineTargets, d \in NominalDurations :
         CallGetTransitionDelay(t[1], t[2], t[3], d)

SpecEngine == InitEngine /\ [][NextEngine]_vars

-----------------------------------------------------------------------------
(* Properties of the behavior engine *)

\* the override registered for the resource the last query was about, if any
LastOverride ==
    LET key == makeKey(last.resourceType, last.namespace, last.name)
    IN  IF key \in DOMAIN overrides THEN <<overrides[key]>> ELSE <<>>

\* C6: whenever ShouldFail is asked about a resource whose override has
\* force-success set, it returns (false, none), whatever forced failure the
\* override carries, whatever scenarios are configured and whatever samples
\* are drawn.
C6_ForceSuccessWins ==
    (last.op = "ShouldFail" /\ LastOverride # <<>> /\ LastOverride[1].forceSuccess)
        => (last.ret.fail = FALSE /\ last.ret.failure = <<>>)

\* C6 happens: force-success and a forced failure on the same resource, a
\* scenario of probability 1.0 configured, and ShouldFail has answered
C6_Witness ==
    /\ last.op = "ShouldFail"
    /\ LastOverride # <<>>
    /\ LastOverride[1].forceSuccess
    /\ LastOverride[1].forceFail = <<ForcedScenario>>
    /\ Len(ScenariosOf(config, last.resourceType)) > 0
    /\ ScenariosOf(config, last.resourceType)[1].probability = ProbScale
    /\ ~last.ret.fail

\* C7: whenever ShouldFail is asked about a resource whose override carries
\* a forced failure and does not set force-success, it returns (true, that
\* forced scenario), whatever scenarios are configured and whatever samples
\* are drawn.
C7_ForcedFailureReturned ==
    (last.op = "ShouldFail" /\ LastOverride # <<>> /\ ~LastOverride[1].forceSuccess
        /\ LastOverride[1].forceFail # <<>>)
        => (last.ret.fail /\ last.ret.failure = LastOverride[1].forceFail)

\* C7 happens: a forced failure is returned although every configured
\* scenario has probability 0.0
C7_Witness ==
    /\ last.op = "ShouldFail"
    /\ LastOverride # <<>>
    /\ ~LastOverride[1].forceSuccess
    /\ LastOverride[1].forceFail = <<ForcedScenario>>
    /\ Len(ScenariosOf(config, last.resourceType)) > 0
    /\ \A i \in 1..Len(ScenariosOf(config, last.resourceType)) :
          ScenariosOf(config, last.resourceType)[i].probability = 0
    /\ last.ret.fail

\* C8: when ShouldFail is asked about a resource without an override, the
\* scenario it returns never has probability 0.0, and when the first
\* configured scenario has probability 1.0 it returns that scenario for
\* every sample.
C8_ProbabilityBoundary ==
    (last.op = "ShouldFail" /\ LastOverride = <<>>)
        => LET scenarios == ScenariosOf(config, last.resourceType)
           IN  /\ last.ret.fail => last.ret.failure[1].probability # 0
               /\ (Len(scenarios) > 0 /\ scenarios[1].probability = ProbScale)
                    => (last.ret.fail /\ last.ret.failure = <<scenarios[1]>>)

\* C8 happens: no override, a scenario of probability 0.0 first and no
\* other scenario behind it, and ShouldFail has answered no failure
C8_Witness ==
    /\ last.op = "ShouldFail"
    /\ LastOverride = <<>>
    /\ Len(ScenariosOf(config, last.resourceType)) > 0
    /\ ScenariosOf(config, last.resourceType)[1].probability = 0
    /\ \A i \in DOMAIN ScenariosOf(config, last.resourceType) :
          ScenariosOf(config, last.resourceType)[i].probability = 0
    /\ ~last.ret.fail

\* C9: GetTransitionDelay returns the forced delay when an override with a
\* delay is registered for exactly the resource asked about and the nominal
\* duration otherwise; after ClearResourceOverride for a resource, and after
\* ClearAllOverrides, it returns the nominal duration for that resource.
C9_TransitionDelay ==
    /\ last.op = "GetTransitionDelay" =>
          last.ret = IF LastOverride # <<>> /\ LastOverride[1].delaySeconds # <<>>
                     THEN LastOverride[1].delaySeconds[1]
                     ELSE last.defaultDuration
    /\ last.op = "ClearResourceOverride" =>
          \A d \in NominalDurations :
              GetTransitionDelay(overrides, last.resourceType, last.namespace, last.name, d) = d
    /\ last.op = "ClearAllOverrides" =>
          \A t \in EngineTargets, d \in NominalDurations :
              GetTransitionDelay(overrides, t[1], t[2], t[3], d) = d

\* C9 happens: ClearResourceOverride has removed an override with a delay of 30s
C9_Witness ==
    /\ last.op = "ClearResourceOverride"
    /\ last.removed # <<>>
    /\ last.removed[1].delaySeconds = <<30>>

-----------------------------------------------------------------------------
(* One fresh resource under a generated state sequence *)

\* the durations a generated state may carry
StateDurations == {0, 2}

\* the states of DefaultConfig, each with every duration of StateDurations
GeneratedStates(kind) ==
    LET defaults == DefaultConfig[kind].states
    IN  {StateConfig(defaults[i].name, d, defaults[i].conds) :
            i \in 1..Len(defaults), d \in StateDurations}

NoLabels == <<>>

\* is this object as its creator left it: no stored state, no condition, no marker
IsFresh(kind, obj) ==
    /\ obj.exists
    /\ IF kind = "ClusterDeployment"
       THEN obj = [NewClusterDeployment(<<obj.ns, obj.name>>, obj.labels)
                     EXCEPT !.deleting = obj.deleting]
       ELSE obj = [NewClaim(<<obj.ns, obj.name>>, obj.labels, obj.secretNamespace, obj.secretName)
                     EXCEPT !.deleting = obj.deleting]

\* the engine and the state machines are built from one configuration: the
\* default but for one kind's state sequence; one resource of that kind exists
InitSM ==
    /\ \E kind \in Kinds : \E states \in SeqsUpTo(GeneratedStates(kind), MaxStates) :
         /\ config = [DefaultConfig EXCEPT ![kind].states = states]
         /\ cds = [k \in CDKeys |-> IF kind = "ClusterDeployment" /\ k = <<"ns1", "c1">>
                                    THEN NewClusterDeployment(k, NoLabels) ELSE NoObj]
         /\ acs = [k \in ACKeys |-> IF kind = "AccountClaim" /\ k = <<"ns1", "a1">>
                                    THEN NewClaim(k, NoLabels, "", "") ELSE NoObj]
         /\ pcs = [k \in PCKeys |-> IF kind = "ProjectClaim" /\ k = <<"ns1", "p1">>
                                    THEN NewClaim(k, NoLabels, "", "") ELSE NoObj]
    /\ smConfig = config
    /\ overrides = <<>>
    /\ secrets = {}
    /\ clock = StartTime
    /\ hist = [r \in Resources |-> <<>>]
    /\ last = [op |-> "NewEngine"]
    /\ calls = NoCalls

\* the reconciliations of the resource that exists
NextSM ==
    \/ cds[<<"ns1", "c1">>].exists /\ ReconcileClusterDeployment(<<"ns1", "c1">>)
    \/ acs[<<"ns1", "a1">>].exists /\ ReconcileAccountClaim(<<"ns1", "a1">>)
    \/ pcs[<<"ns1", "p1">>].exists /\ ReconcileProjectClaim(<<"ns1", "p1">>)

SpecSM == InitSM /\ [][NextSM]_vars

-----------------------------------------------------------------------------
(* One fresh resource under a generated state sequence, with forced delays *)

\* the delays an override may force, in seconds
ForcedDelays == {0, 30}

\* the resource identities of the resources InitSM may create
SMTargets ==
    { <<"ClusterDeployment", "ns1", "c1">>, <<"AccountClaim", "ns1", "a1">>,
      <<"ProjectClaim", "ns1", "p1">> }

\* does the resource of this identity exist in the store
Exists(t) ==
    CASE t[1] = "ClusterDeployment" -> cds[<<t[2], t[3]>>].exists
      [] t[1] = "AccountClaim" -> acs[<<t[2], t[3]>>].exists
      [] t[1] = "ProjectClaim" -> pcs[<<t[2], t[3]>>].exists

\* the reconciliations of the resource that exists, and the overrides an
\* operator sets and clears for it
NextDelay ==
    \/ NextSM
    \/ \E t \in SMTargets, d \in ForcedDelays :
         /\ Exists(t)
         /\ SetResourceOverride(t[1], t[2], t[3], ResourceOverride(t[3], <<d>>, <<>>, FALSE))
    \/ \E t \in SMTargets : Exists(t) /\ ClearResourceOverride(t[1], t[2], t[3])

SpecDelay == InitSM /\ [][NextDelay]_vars

-----------------------------------------------------------------------------
(* Properties of the state machines *)

\* the first index of the entry of states named name, 0 if there is none
FirstNamed(states, name) ==
    IF \E i \in 1..Len(states) : states[i].name = name
    THEN CHOOSE i \in 1..Len(states) :
            states[i].name = name /\ \A j \in 1..(i - 1) : states[j].name # name
    ELSE 0

\* the current state of a stored object: stored for a claim, derived for a
\* ClusterDeployment
CurrentState(kind, obj) ==
    IF kind = "ClusterDeployment" THEN getCurrentState(obj) ELSE obj.state

\* what the state machine of a kind answers for a stored object
NextState(kind, obj) ==
    CASE kind = "ClusterDeployment" -> CDGetNextState(smConfig[kind], obj)
      [] kind = "AccountClaim" -> ACGetNextState(smConfig[kind], obj)
      [] kind = "ProjectClaim" -> PCGetNextState(smConfig[kind], obj)

\* the objects of the store, with their kinds
Stored ==
    {<<"ClusterDeployment", cds[k]>> : k \in CDKeys} \cup {<<"AccountClaim", acs[k]>> : k \in ACKeys}
        \cup {<<"ProjectClaim", pcs[k]>> : k \in PCKeys}

\* the last operation was a reconciliation that applied a state to a fresh
\* resource of a kind with a non-empty state sequence
FirstApplication ==
    /\ last.op = "Reconcile"
    /\ IsFresh(last.kind, last.pre)
    /\ last.applied # ""
    /\ Len(smConfig[last.kind].states) > 0

\* C1 as stated: the first reconciliation of a fresh resource applies the
\* first configured state with that state's duration.
C1_FirstStateFirst ==
    FirstApplication =>
        LET states == smConfig[last.kind].states
        IN  /\ last.applied = states[1].name
            /\ last.next = <<[state |-> states[1].name, duration |-> states[1].dur]>>

\* C1 amended: the first reconciliation of a fresh resource applies the
\* entry that follows the first entry named "Pending", with that entry's
\* duration; "Pending" itself with zero duration when that entry is the last
\* one; and the first entry with its duration only when no entry is named
\* "Pending".
C1_FirstStateAfterPending ==
    FirstApplication =>
        LET states == smConfig[last.kind].states
            p == FirstNamed(states, "Pending")
            expected ==
                IF p = 0 THEN [state |-> states[1].name, duration |-> states[1].dur]
                ELSE IF p = Len(states) THEN [state |-> "Pending", duration |-> 0]
                ELSE [state |-> states[p + 1].name, duration |-> states[p + 1].dur]
        IN  /\ last.applied = expected.state
            /\ last.next = <<expected>>
            /\ last.result.err = "" => last.result.requeueAfter =
                  GetTransitionDelay(overrides, last.kind, last.pre.ns, last.pre.name,
                                     expected.duration)

\* C1 happens: the sequence starts with "Pending", and the first
\* reconciliation of a fresh resource applied its second entry
C1_Witness ==
    /\ FirstApplication
    /\ Len(smConfig[last.kind].states) >= 2
    /\ smConfig[last.kind].states[1].name = "Pending"
    /\ smConfig[last.kind].states[2].name # "Pending"
    /\ last.applied = smConfig[last.kind].states[2].name
    /\ last.result = Result(2, "")

-----------------------------------------------------------------------------
(* The world of the reconcilers: one ClusterDeployment and one claim *)

\* the condition types of the three-state scenario's Provisioning state: the
\* two that getCurrentState reads with status False, and one it does not read
ScenarioConditionTypes == {"DeprovisionLaunchError", "DNSNotReady", "ProvisionStopped"}

\* [Pending(1s), Provisioning(2s, one condition with status False), Running(1s)]
ScenarioStates(conditionType) ==
    << StateConfig("Pending", 1, <<>>),
       StateConfig("Provisioning", 2,
            <<ConditionConfig(conditionType, "False", "Provisioning", "Cluster is provisioning")>>),
       StateConfig("Running", 1, <<>>) >>

\* a failure scenario that fires for half of the samples
EvenScenario == FailureScenario(ProbScale \div 2, "ProvisionFailed", "Simulated", "simulated failure")

\* the default configuration with failures that may or may not fire
FailingConfig == [k \in Kinds |-> [DefaultConfig[k] EXCEPT !.failures = <<EvenScenario>>]]

ScenarioConfigs ==
    {[FailingConfig EXCEPT !["ClusterDeployment"].states = ScenarioStates(t)] :
        t \in ScenarioConditionTypes}

\* the correlation key of the resources of this world
ClusterID == "k1"

WithID == [x \in {LabelID} |-> ClusterID]

\* the credential secret a claim of this world names, and that of one naming none
SecretRefs == {<<"", "">>, <<"ns1", "creds">>}

\* the resources of this world that are reconciled, one of each kind absent
WorldCDKeys == {<<"ns1", "c1">>, <<"ns1", "c2">>}
WorldACKeys == {<<"ns1", "a1">>, <<"ns1", "a2">>}
WorldPCKeys == {<<"ns1", "p1">>, <<"ns1", "p2">>}

\* one resource exists: a ClusterDeployment under the default or a scenario
\* configuration, or a claim under the default configuration
Init ==
    /\ \E kind \in Kinds :
         /\ config \in (IF kind = "ClusterDeployment" THEN {FailingConfig} \cup ScenarioConfigs
                        ELSE {FailingConfig})
         /\ \E labels \in {NoLabels, WithID}, ref \in SecretRefs :
              /\ cds = [k \in CDKeys |-> IF kind = "ClusterDeployment" /\ k = <<"ns1", "c1">>
                                         THEN NewClusterDeployment(k, labels) ELSE NoObj]
              /\ acs = [k \in ACKeys |-> IF kind = "AccountClaim" /\ k = <<"ns1", "a1">>
                                         THEN NewClaim(k, WithID, ref[1], ref[2]) ELSE NoObj]
              /\ pcs = [k \in PCKeys |-> IF kind = "ProjectClaim" /\ k = <<"ns1", "p1">>
                                         THEN NewClaim(k, WithID, ref[1], ref[2]) ELSE NoObj]
    /\ smConfig = config
    /\ overrides = <<>>
    /\ secrets \in {{}, {<<"ns1", "creds">>}}
    /\ clock = StartTime
    /\ hist = [r \in Resources |-> <<>>]
    /\ last = [op |-> "NewEngine"]
    /\ calls = NoCalls

Next ==
    \/ \E key \in WorldCDKeys : ReconcileClusterDeployment(key)
    \/ \E key \in WorldACKeys : ReconcileAccountClaim(key)
    \/ \E key \in WorldPCKeys : ReconcileProjectClaim(key)
    \/ \E key \in WorldCDKeys : MarkDeleted("ClusterDeployment", key)
    \/ \E key \in WorldACKeys : MarkDeleted("AccountClaim", key)
    \/ \E key \in WorldPCKeys : MarkDeleted("ProjectClaim", key)
    \/ Tick

Spec == Init /\ [][Next]_vars

-----------------------------------------------------------------------------
(* A ClusterDeployment and the claims it may depend on *)

\* the states applied to the ClusterDeployment before this world stops it
MaxDepApplied == 1

\* a label set from an optional correlation key and an optional provider
Labels(id, cloud) ==
    [x \in (IF id # <<>> THEN {LabelID} ELSE {}) \cup
            (IF cloud # <<>> THEN {LabelCloudProvider} ELSE {}) |->
        IF x = LabelID THEN id[1] ELSE cloud[1]]

CDLabelSets ==
    {NoLabels} \cup
    {Labels(<<ClusterID>>, cloud) : cloud \in {<<>>, <<"aws">>, <<"gcp">>, <<"azure">>}}

\* a claim that is absent, or present with one of the label sets
ClaimChoices(key, labelSets) == {NoObj} \cup {NewClaim(key, l, "", "") : l \in labelSets}

\* the dependency flags of the ClusterDeployment configuration
DependencyFlags == {<<TRUE, TRUE>>, <<TRUE, FALSE>>}

InitDep ==
    /\ \E f \in DependencyFlags :
         config = [DefaultConfig EXCEPT !["ClusterDeployment"].dependsOnAccountClaim = f[1],
                                        !["ClusterDeployment"].dependsOnProjectClaim = f[2]]
    /\ smConfig = config
    /\ overrides = <<>>
    /\ \E labels \in CDLabelSets :
         cds = [k \in CDKeys |-> IF k = <<"ns1", "c1">>
                                 THEN NewClusterDeployment(k, labels) ELSE NoObj]
    /\ \E a1 \in ClaimChoices(<<"ns1", "a1">>, {WithID, Labels(<<"k2">>, <<>>)}),
          a2 \in ClaimChoices(<<"ns1", "a2">>, {WithID}),
          a3 \in ClaimChoices(<<"ns2", "a1">>, {WithID}) :
         acs = [k \in ACKeys |-> CASE k = <<"ns1", "a1">> -> a1
                                    [] k = <<"ns1", "a2">> -> a2
                                    [] k = <<"ns2", "a1">> -> a3]
    /\ \E p1 \in ClaimChoices(<<"ns1", "p1">>, {WithID}) :
         pcs = [k \in PCKeys |-> IF k = <<"ns1", "p1">> THEN p1 ELSE NoObj]
    /\ secrets = {}
    /\ clock = StartTime
    /\ hist = [r \in Resources |-> <<>>]
    /\ last = [op |-> "NewEngine"]
    /\ calls = NoCalls

\* the reconciliations of the resources that exist
NextDep ==
    \/ /\ Len(hist[<<"ClusterDeployment", "ns1", "c1">>]) < MaxDepApplied
       /\ ReconcileClusterDeployment(<<"ns1", "c1">>)
    \/ \E key \in ACKeys : acs[key].exists /\ ReconcileAccountClaim(key)
    \/ \E key \in PCKeys : pcs[key].exists /\ ReconcileProjectClaim(key)

SpecDep == InitDep /\ [][NextDep]_vars

-----------------------------------------------------------------------------
(* Properties of the reconcilers *)

IsPrefix(a, b) == Len(a) <= Len(b) /\ \A i \in 1..Len(a) : a[i] = b[i]

TheCD == <<"ClusterDeployment", "ns1", "c1">>

\* the three-state scenario is configured and no failure was applied to the
\* ClusterDeployment
ScenarioRun ==
    /\ smConfig \in ScenarioConfigs
    /\ \A i \in 1..Len(hist[TheCD]) : hist[TheCD][i] # FailureMark

\* once installed, the infra id is set and GetNextState answers zero duration
InstalledForGood ==
    cds[<<"ns1", "c1">>].installed =>
        /\ cds[<<"ns1", "c1">>].infraID # ""
        /\ CDGetNextState(smConfig["ClusterDeployment"], cds[<<"ns1", "c1">>]).duration = 0

\* C2 as stated: under [Pending(1s), Provisioning(2s, X=False), Running(1s)]
\* without failures the states applied are Pending, Provisioning, Running in
\* that order, and from then on the resource is installed with an infra id
\* and GetNextState answers zero duration.
C2_PendingProvisioningRunning ==
    ScenarioRun =>
        /\ IsPrefix(hist[TheCD], <<"Pending", "Provisioning", "Running">>)
        /\ InstalledForGood

\* the states the scenario applies: "Pending" is never the first, and it
\* follows "Provisioning" only when the condition X is the one from which
\* the state "Installing" is derived; "Running" is applied again only after
\* a reconciliation that could not persist the installed flag
ScenarioApplied ==
    (IF smConfig["ClusterDeployment"].states[2].conds[1].type = "DNSNotReady"
     THEN <<"Provisioning", "Pending">> ELSE <<"Provisioning">>)
        \o [i \in 1..MaxHist |-> "Running"]

\* C2 amended: under that configuration without failures the states applied
\* are Provisioning then Running (Provisioning, Pending, Running when X is
\* DNSNotReady); once installed, the resource has an infra id and
\* GetNextState answers zero duration; and a reconciliation that applied
\* Running without an error left the resource installed.
C2_ProvisioningRunning ==
    ScenarioRun =>
        /\ IsPrefix(hist[TheCD], ScenarioApplied)
        /\ InstalledForGood
        /\ (last.op = "Reconcile" /\ last.kind = "ClusterDeployment"
                /\ last.applied = "Running" /\ last.result.err = "")
            => (last.obj.installed /\ last.obj.infraID = last.obj.name \o "-infra")

\* C2 happens: Provisioning and Running were applied, the resource is
\* installed, and a later reconciliation found nothing more to do
C2_Witness ==
    /\ ScenarioRun
    /\ hist[TheCD] = <<"Provisioning", "Running">>
    /\ cds[<<"ns1", "c1">>].installed
    /\ cds[<<"ns1", "c1">>].infraID = "c1-infra"
    /\ last.op = "Reconcile" /\ last.kind = "ClusterDeployment" /\ last.key = <<"ns1", "c1">>
    /\ last.pre.installed
    /\ last.result = Result(0, "")

\* C5: a reconciliation that applies a failure schedules no requeue, and
\* after a failure was applied to a resource no lifecycle state is applied
\* to it any more.
C5_FailureIsTerminal ==
    /\ (last.op = "Reconcile" /\ last.failure # <<>>) => last.result.requeueAfter = 0
    /\ \A r \in Resources :
          \A i, j \in 1..Len(hist[r]) :
              (i < j /\ hist[r][i] = FailureMark) => hist[r][j] = FailureMark

\* C10: a reconciliation whose fetch finds nothing, or finds a resource that
\* is being deleted or is terminal (installed; Ready or Error), returns no
\* error and no requeue, writes nothing and does not consult the engine.
C10_QuietTermination ==
    (/\ last.op = "Reconcile"
     /\ last.result.err # "get"
     /\ \/ ~last.pre.exists
        \/ last.pre.deleting
        \/ (IF last.kind = "ClusterDeployment" THEN last.pre.installed
            ELSE last.pre.state \in {ClaimStatusReady, ClaimStatusError}))
    => /\ last.result = Result(0, "")
       /\ last.writes = {}
       /\ last.obj = last.pre
       /\ ~last.consulted

\* C10 happens: an installed ClusterDeployment whose configuration has a
\* failure scenario was reconciled
C10_Witness ==
    /\ last.op = "Reconcile"
    /\ last.kind = "ClusterDeployment"
    /\ last.pre.exists /\ last.pre.installed /\ ~last.pre.deleting
    /\ Len(config["ClusterDeployment"].failures) > 0
    /\ last.result = Result(0, "")

-----------------------------------------------------------------------------
(* Properties of the dependency check *)

\* the last operation was a reconciliation of a ClusterDeployment with a
\* correlation key that got as far as the dependency check
DependencyChecked ==
    /\ last.op = "Reconcile"
    /\ last.kind = "ClusterDeployment"
    /\ last.dep # <<>>
    /\ LabelID \in DOMAIN last.pre.labels

\* the claims of a kind in the namespace of the reconciled ClusterDeployment
\* whose correlation key is the ClusterDeployment's
Matching(kind) ==
    LET store == IF kind = "AccountClaim" THEN acs ELSE pcs
    IN  {store[k] : k \in {x \in DOMAIN store :
            /\ store[x].exists
            /\ store[x].ns = last.pre.ns
            /\ Lookup(store[x].labels, LabelID) = last.pre.labels[LabelID]}}

\* the claim kinds the configuration makes the ClusterDeployment depend on
ConfiguredKinds ==
    (IF config["ClusterDeployment"].dependsOnAccountClaim THEN {"AccountClaim"} ELSE {}) \cup
    (IF config["ClusterDeployment"].dependsOnProjectClaim THEN {"ProjectClaim"} ELSE {})

\* of those, the kinds the provider label of the ClusterDeployment selects
SelectedKinds ==
    LET cloudProvider == Lookup(last.pre.labels, LabelCloudProvider)
    IN  {k \in ConfiguredKinds :
            \/ k = "AccountClaim" /\ cloudProvider \in {"aws", ""}
            \/ k = "ProjectClaim" /\ cloudProvider = "gcp"}

\* a reconciliation whose check reported not-ready changed nothing and
\* asked for the retry the check suggested
NotReadyNotAdvanced ==
    ~last.dep[1].ready =>
        /\ last.applied = ""
        /\ last.writes = {}
        /\ last.obj = last.pre
        /\ last.result = Result(last.dep[1].retry, "")

\* C4 as stated, for a ClusterDeployment configured to depend on one claim
\* kind: the check reports not-ready when no claim of that kind with the
\* same key exists in the namespace, reports ready with zero retry when one
\* with the same key is Ready, and a not-ready check advances nothing.
C4_DependencyGating ==
    (DependencyChecked /\ Cardinality(ConfiguredKinds) = 1) =>
        /\ \A k \in ConfiguredKinds :
              /\ Matching(k) = {} => ~last.dep[1].ready
              /\ (\E c \in Matching(k) : c.state = ClaimStatusReady)
                    => (last.dep[1].ready /\ last.dep[1].retry = 0)
        /\ NotReadyNotAdvanced

\* C4 amended: only the claim kinds that the provider label selects are
\* checked ("aws" or none: AccountClaim; "gcp": ProjectClaim).  The check
\* reports not-ready with a retry when a selected kind has no claim with the
\* same key in the namespace; when it reports ready the retry is zero and
\* every selected kind has such a claim in state Ready; it reports ready
\* when every selected kind has such claims and all of them are Ready,
\* unless listing failed (retry of 5s); a not-ready check advances nothing.
C4_DependencyGatingSelected ==
    DependencyChecked =>
        /\ \A k \in SelectedKinds :
              Matching(k) = {} => (~last.dep[1].ready /\ last.dep[1].retry > 0)
        /\ last.dep[1].ready =>
              /\ last.dep[1].retry = 0
              /\ \A k \in SelectedKinds : \E c \in Matching(k) : c.state = ClaimStatusReady
        /\ (\A k \in SelectedKinds :
                Matching(k) # {} /\ \A c \in Matching(k) : c.state = ClaimStatusReady)
              => (last.dep[1].ready \/ last.dep[1].retry = 5)
        /\ NotReadyNotAdvanced

\* C4 happens: an AccountClaim with the key of the ClusterDeployment was
\* reconciled to Ready while another AccountClaim with another key was not,
\* the check reported ready and the ClusterDeployment was advanced
C4_Witness ==
    /\ DependencyChecked
    /\ SelectedKinds = {"AccountClaim"}
    /\ acs[<<"ns1", "a2">>] \in Matching("AccountClaim")
    /\ acs[<<"ns1", "a2">>].state = ClaimStatusReady
    /\ hist[<<"AccountClaim", "ns1", "a2">>] # <<>>
    /\ acs[<<"ns1", "a1">>].exists /\ acs[<<"ns1", "a1">>].state # ClaimStatusReady
    /\ acs[<<"ns1", "a1">>] \notin Matching("AccountClaim")
    /\ last.dep[1].ready
    /\ last.applied = "Provisioning"

\* C11: a ClusterDeployment reconciliation whose dependency check reports
\* not-ready leaves every resource of the store, the secrets and the applied
\* states as they were, applies no state, returns no error and asks for a
\* requeue after exactly the retry the check suggested.
C11_NotReadyWritesNothing ==
    [][ (/\ last'.op = "Reconcile"
         /\ last'.kind = "ClusterDeployment"
         /\ last'.dep # <<>>
         /\ ~last'.dep[1].ready)
        => /\ cds' = cds /\ acs' = acs /\ pcs' = pcs /\ secrets' = secrets
           /\ hist' = hist
           /\ last'.applied = "" /\ last'.writes = {}
           /\ last'.result.err = ""
           /\ last'.result.requeueAfter = last'.dep[1].retry
           /\ last'.dep[1].retry > 0 ]_vars

\* C11 happens: the claim with the key of the ClusterDeployment exists but is
\* not Ready, the check reported not-ready, and the reconciliation returned
\* the requeue of 2s with the ClusterDeployment still as it was created
C11_Witness ==
    /\ DependencyChecked
    /\ ~last.dep[1].ready
    /\ \E c \in Matching("AccountClaim") : c.state # ClaimStatusReady
    /\ last.result = Result(2, "")
    /\ IsFresh("ClusterDeployment", cds[<<"ns1", "c1">>])

-----------------------------------------------------------------------------
(* Properties of the requeue decision *)

\* the last operation was a reconciliation that applied a state and
\* persisted it without an error
AppliedState ==
    /\ last.op = "Reconcile"
    /\ last.applied # ""
    /\ last.result.err = ""

\* the name of the last entry of the sequence configured for the reconciled kind
LastEntry == smConfig[last.kind].states[Len(smConfig[last.kind].states)].name

\* C12 as stated: for a non-empty configured sequence, a successful
\* state-applying reconciliation schedules a follow-up if and only if the
\* state it applied is not the last entry of the sequence.
C12_FollowUpUnlessLast ==
    (AppliedState /\ Len(smConfig[last.kind].states) > 0)
        => (last.result.requeueAfter > 0 <=> last.applied # LastEntry)

\* C12 amended: a successful state-applying reconciliation schedules a
\* follow-up if and only if the duration GetNextState returned is non-zero
\* and the delay the engine answers for it is non-zero; it schedules none
\* when the resource was already in the last entry before the
\* reconciliation; the duration of an entry that is reached from another
\* state, the last entry included, is its configured duration.
C12_FollowUpIffDuration ==
    (AppliedState /\ Len(smConfig[last.kind].states) > 0)
        => LET states == smConfig[last.kind].states
               next == NextState(last.kind, last.pre)
               d == GetTransitionDelay(overrides, last.kind, last.pre.ns, last.pre.name,
                                       next.duration)
           IN  /\ last.next = <<next>>
               /\ last.result.requeueAfter > 0 <=> (next.duration > 0 /\ d > 0)
               /\ last.result.requeueAfter > 0 => last.result.requeueAfter = d
               /\ FirstNamed(states, CurrentState(last.kind, last.pre)) = Len(states)
                    => last.result.requeueAfter = 0
               /\ next.duration \in {states[i].dur : i \in 1..Len(states)} \cup {0}

\* C12 happens: the last of two configured entries, of non-zero duration,
\* was applied to a resource that was in the first one, an override forces
\* a delay of 30s, and the follow-up is scheduled after 30s
C12_Witness ==
    /\ AppliedState
    /\ Len(smConfig[last.kind].states) = 2
    /\ smConfig[last.kind].states[1].name # smConfig[last.kind].states[2].name
    /\ last.applied = LastEntry
    /\ last.next[1].duration = 2
    /\ makeKey(last.kind, last.pre.ns, last.pre.name) \in DOMAIN overrides
    /\ last.result = Result(30, "")

\* C13: after a successful state application and persist, the follow-up is
\* scheduled after d = GetTransitionDelay(kind, ns, name, nominal duration)
\* exactly when d is non-zero, whatever the nominal duration is.
C13_DelayAlwaysConsulted ==
    AppliedState
        => LET d == GetTransitionDelay(overrides, last.kind, last.pre.ns, last.pre.name,
                                       last.next[1].duration)
           IN  last.result.requeueAfter = d

-----------------------------------------------------------------------------
(* Properties of ApplyState and ApplyFailure *)

\* the derived artifacts of an object: infra id, API and console URLs and
\* provision reference, or the claim's account or project identifier
Artifacts(kind, obj) ==
    IF kind = "ClusterDeployment"
    THEN <<obj.infraID, obj.apiURL, obj.webConsoleURL, obj.provisionRef>>
    ELSE <<obj.cloudID>>

\* ApplyState of a kind's state machine
ApplyStateOf(kind, obj, state, now) ==
    CASE kind = "ClusterDeployment" -> CDApplyState(smConfig[kind], obj, state)
      [] kind = "AccountClaim" -> ACApplyState(obj, state, now)
      [] kind = "ProjectClaim" -> PCApplyState(obj, state, now)

\* the state names ApplyState is given: those of the default sequences, the
\* failure state of the claims, and a name no sequence has
AppliedNames ==
    UNION {{DefaultConfig[k].states[i].name : i \in 1..Len(DefaultConfig[k].states)} : k \in Kinds}
        \cup {ClaimStatusError, "Hibernating"}

\* C14: for every kind, every object the store holds, every state and every
\* two times of application, applying the state a second time leaves the
\* infra id, the URLs, the provision reference and the account or project
\* identifier as the first application left them.
C14_ApplyStateIdempotent ==
    \A s \in Stored : s[2].exists =>
        \A state \in AppliedNames : \A t1, t2 \in Times :
            LET first == ApplyStateOf(s[1], s[2], state, t1)
                second == ApplyStateOf(s[1], first.obj, state, t2)
            IN  first.err = "" =>
                    /\ second.err = ""
                    /\ Artifacts(s[1], second.obj) = Artifacts(s[1], first.obj)

\* C14 happens: PendingProject was applied to a ProjectClaim, which got its
\* project identifier from the time of that application, and time has
\* passed since, so that an identifier synthesized now would be another one
C14_Witness ==
    /\ pcs[<<"ns1", "p1">>].exists
    /\ pcs[<<"ns1", "p1">>].state = ClaimStatusPendingProject
    /\ pcs[<<"ns1", "p1">>].cloudID = ProjectID("p1", StartTime)
    /\ clock # StartTime
    /\ ProjectID("p1", clock) # ProjectID("p1", StartTime)

\* the ProjectClaim of the world of the reconcilers
TheProjectClaim == pcs[<<"ns1", "p1">>]

\* the states applied to that ProjectClaim so far
TheProjectClaimHist == hist[<<"ProjectClaim", "ns1", "p1">>]

ConfiguredNames(kind) ==
    {smConfig[kind].states[i].name : i \in 1..Len(smConfig[kind].states)}

\* the errors a call to the store may return to a reconciler
StoreErrors == StoreFaults \ {"none"}

\* C16: for every kind, ApplyState with a state name that the configured
\* sequence does not have returns the error "state not found" and leaves the
\* object as it was, and a reconciliation whose next state is such a name
\* returns that error, writes nothing and schedules no requeue.
C16_StateNotFound ==
    /\ \A s \in Stored : s[2].exists =>
          \A state \in AppliedNames \ ConfiguredNames(s[1]) : \A t \in Times :
              /\ ApplyStateOf(s[1], s[2], state, t).err = "state not found"
              /\ ApplyStateOf(s[1], s[2], state, t).obj = s[2]
    /\ (last.op = "Reconcile" /\ last.next # <<>>
            /\ last.next[1].state \notin ConfiguredNames(last.kind))
          => /\ last.result = Result(0, "state not found")
             /\ last.obj = last.pre
             /\ last.writes = {}

\* C16 for the ClusterDeployment alone
C16_ClusterDeploymentStateNotFound ==
    /\ \A k \in CDKeys : cds[k].exists =>
          \A state \in AppliedNames \ ConfiguredNames("ClusterDeployment") :
              CDApplyState(smConfig["ClusterDeployment"], cds[k], state) =
                  [err |-> "state not found", obj |-> cds[k]]
    /\ (last.op = "Reconcile" /\ last.kind = "ClusterDeployment" /\ last.next # <<>>
            /\ last.next[1].state \notin ConfiguredNames(last.kind))
          => /\ last.result = Result(0, "state not found")
             /\ last.obj = last.pre
             /\ last.writes = {}

\* C17: for every kind whose configured sequence is empty, GetNextState
\* answers the fallback "Pending" with a non-zero duration, and the
\* reconciliation that applies it succeeds and persists it unless a call to
\* the store fails.
C17_EmptySequenceFallback ==
    (last.op = "Reconcile" /\ last.next # <<>> /\ Len(smConfig[last.kind].states) = 0)
        => /\ last.next[1].state = "Pending"
           /\ last.next[1].duration > 0
           /\ last.result.err \notin StoreErrors
                => /\ last.result.err = ""
                   /\ last.applied = "Pending"
                   /\ "status" \in last.writes
                   /\ CurrentState(last.kind, last.obj) = "Pending"

\* C17 for the claims alone
C17_ClaimEmptySequenceFallback ==
    (last.op = "Reconcile" /\ last.kind # "ClusterDeployment") => C17_EmptySequenceFallback

\* ApplyFailure of a kind's state machine
ApplyFailureOf(kind, obj, failure) ==
    IF kind = "ClusterDeployment" THEN CDApplyFailure(obj, failure)
    ELSE ClaimApplyFailure(obj, failure)

\* after is before with the failure of the scenario applied: in the kind's
\* failure state (provision reference <name>-provision-failed; state Error),
\* the scenario's condition with status True appended to the conditions
\* that were there, and infra id, URLs and claim identifier as before
FailureApplied(kind, before, after, failure) ==
    /\ after.conditions =
          before.conditions \o
            << [ type |-> failure.condition, status |-> "True",
                 reason |-> failure.reason, message |-> failure.message ] >>
    /\ IF kind = "ClusterDeployment"
       THEN /\ after.provisionRef = before.name \o "-provision-failed"
            /\ after.infraID = before.infraID
            /\ after.apiURL = before.apiURL
            /\ after.webConsoleURL = before.webConsoleURL
            /\ after.installed = before.installed
       ELSE /\ after.state = "Error"
            /\ after.cloudID = before.cloudID

\* C18: for every kind and every object of the store, ApplyFailure puts the
\* object into the failure state of its kind, appends exactly the
\* scenario's condition with status True behind the conditions that were
\* there, and keeps infra id, URLs and claim identifier; and a
\* reconciliation that applied a failure has stored exactly that.
C18_FailureAppendsCondition ==
    /\ \A s \in Stored : s[2].exists =>
          \A f \in {EvenScenario, ForcedScenario} :
              FailureApplied(s[1], s[2], ApplyFailureOf(s[1], s[2], f), f)
    /\ (last.op = "Reconcile" /\ last.failure # <<>> /\ last.result.err = "")
          => /\ last.writes = {"status"}
             /\ FailureApplied(last.kind, last.pre, last.obj, last.failure[1])

\* C18 happens: a failure was applied to a ClusterDeployment that had been
\* given its URLs and a condition by the state Installing, and the stored
\* object has both conditions and the URLs
C18_Witness ==
    /\ last.op = "Reconcile" /\ last.kind = "ClusterDeployment"
    /\ last.failure = <<EvenScenario>>
    /\ last.result.err = ""
    /\ last.pre.apiURL # ""
    /\ Len(last.pre.conditions) = 1
    /\ Len(cds[last.key].conditions) = 2
    /\ cds[last.key].apiURL = last.pre.apiURL

-----------------------------------------------------------------------------
(* Properties of the dependency check: no correlation key, failed List *)

\* the last operation was a ClusterDeployment reconciliation that got as far
\* as the dependency check
DependencyConsulted ==
    /\ last.op = "Reconcile"
    /\ last.kind = "ClusterDeployment"
    /\ last.dep # <<>>

\* C19: for a ClusterDeployment without the correlation-key label, the check
\* of either claim kind answers ready with zero retry and without a List,
\* whatever the claims of the store, their order and the state of the store
\* connection are, and so does the dependency check of its reconciliation.
C19_NoCorrelationKeyReady ==
    /\ \A k \in CDKeys : (cds[k].exists /\ LabelID \notin DOMAIN cds[k].labels) =>
          \A fault \in ClusterDeploymentFaults :
              /\ \A acList \in ListOrders(InNamespace(acs, k[1])) :
                    checkAccountClaim(cds[k], acList, fault) =
                        [ready |-> TRUE, retry |-> 0, listed |-> FALSE]
              /\ \A pcList \in ListOrders(InNamespace(pcs, k[1])) :
                    checkProjectClaim(cds[k], pcList, fault) =
                        [ready |-> TRUE, retry |-> 0, listed |-> FALSE]
    /\ (DependencyConsulted /\ LabelID \notin DOMAIN last.pre.labels)
          => /\ last.dep[1].ready
             /\ last.dep[1].retry = 0
             /\ last.dep[1].listed = {}
             /\ ~last.dep[1].listErr

\* C19 happens: the namespace of a ClusterDeployment without labels holds an
\* AccountClaim that is not Ready, the check reported ready without a List,
\* and the ClusterDeployment was advanced
C19_Witness ==
    /\ DependencyConsulted
    /\ last.pre.labels = NoLabels
    /\ acs[<<"ns1", "a1">>].exists /\ acs[<<"ns1", "a1">>].state # ClaimStatusReady
    /\ last.dep[1].ready
    /\ last.dep[1].checked = {"AccountClaim"}
    /\ last.dep[1].listed = {}
    /\ last.applied = "Provisioning"

\* C20: when List fails during the dependency check, the check reports
\* not-ready with a retry of 5s, longer than the 2s of every not-ready
\* check whose List succeeded, and the reconciliation returns that requeue
\* without an error and without a write.
C20_ListFailureLongerRetry ==
    DependencyConsulted =>
        /\ last.dep[1].listErr
              => /\ ~last.dep[1].ready
                 /\ last.dep[1].retry = 5
                 /\ last.result = Result(5, "")
                 /\ last.writes = {}
                 /\ last.applied = ""
                 /\ last.obj = last.pre
        /\ (~last.dep[1].ready /\ ~last.dep[1].listErr)
              => (last.dep[1].retry = 2 /\ last.dep[1].retry < 5)

\* C20 happens: List failed although a Ready AccountClaim with the key of the
\* ClusterDeployment is the only matching one, and the reconciliation
\* returned the requeue of 5s
C20_Witness ==
    /\ DependencyChecked
    /\ last.dep[1].listErr
    /\ Matching("AccountClaim") # {}
    /\ \A c \in Matching("AccountClaim") : c.state = ClaimStatusReady
    /\ last.result = Result(5, "")
    /\ hist[TheCD] = <<>>

-----------------------------------------------------------------------------
(* Properties of the dependency check: the kinds the provider label selects *)

\* the last operation was a reconciliation of a ClusterDeployment that got
\* as far as the dependency check while the configuration names both kinds
BothKindsChecked ==
    /\ last.op = "Reconcile"
    /\ last.kind = "ClusterDeployment"
    /\ last.dep # <<>>
    /\ config["ClusterDeployment"].dependsOnAccountClaim
    /\ config["ClusterDeployment"].dependsOnProjectClaim

\* C21: with both dependency flags configured, a reconciliation that reaches
\* the dependency check checks exactly one of AccountClaim and ProjectClaim,
\* whatever the cloud-provider label of the ClusterDeployment is (absent,
\* "aws", "gcp" or any other string).
C21_ExactlyOneKindChecked ==
    BothKindsChecked => Cardinality(last.dep[1].checked) = 1

\* the part of C21 that holds: never both kinds, and exactly one when the
\* label is absent, "aws" or "gcp"
C21_OneKindForKnownProviders ==
    BothKindsChecked =>
        /\ Cardinality(last.dep[1].checked) <= 1
        /\ Lookup(last.pre.labels, LabelCloudProvider) \in {"", "aws", "gcp"}
              => Cardinality(last.dep[1].checked) = 1
        /\ Lookup(last.pre.labels, LabelCloudProvider) \notin {"", "aws", "gcp"}
              => (last.dep[1].checked = {} /\ last.dep[1].ready)

-----------------------------------------------------------------------------
(* Configuration loading and the configuration API *)

\* validate after it has filled the absent sections with the defaults; a
\* section of the file is <<>> when absent and <<c>> when it carries c
FillDefaults(sections) ==
    [k \in Kinds |-> IF sections[k] = <<>> THEN DefaultConfig[k] ELSE sections[k][1]]

\* validate: the error it returns, "" when it accepts the configuration
validate(cfg) ==
    IF \E k \in Kinds : cfg[k].defaultDelaySeconds < 0
    THEN "defaultDelaySeconds must be >= 0"
    ELSE IF \E k \in Kinds : \E i \in 1..Len(cfg[k].states) : cfg[k].states[i].dur < 0
    THEN "duration must be >= 0"
    ELSE IF \E k \in Kinds : \E i \in 1..Len(cfg[k].failures) :
                cfg[k].failures[i].probability < 0 \/ cfg[k].failures[i].probability > ProbScale
    THEN "probability must be 0.0-1.0"
    ELSE ""

\* LoadFromFile on a path that is empty or names a file that can be read and
\* parsed: [err, cfg]
LoadFromFile(file) ==
    IF file.path = "" THEN [err |-> "", cfg |-> DefaultConfig]
    ELSE IF validate(FillDefaults(file.sections)) # ""
    THEN [err |-> validate(FillDefaults(file.sections)), cfg |-> DefaultConfig]
    ELSE [err |-> "", cfg |-> FillDefaults(file.sections)]

\* a failure scenario with a probability of 1.5
OverCertainScenario == FailureScenario((3 * ProbScale) \div 2, "ProvisionFailed", "Simulated", "simulated failure")

\* the per-kind configurations a file section or a request body may carry.
\* For a ClusterDeployment: one that validate accepts and that differs from
\* the default in the states, the scenarios and the flags, and three that
\* validate rejects (a negative state duration, a probability above 1.0, a
\* negative default delay); for a claim one that validate accepts
KindConfigs(kind) ==
    CASE kind = "ClusterDeployment" ->
            { [ defaultDelaySeconds |-> 10,
                states |-> << StateConfig("Pending", 1, <<>>),
                              StateConfig("Running", 2,
                                <<ConditionConfig("ClusterDeploymentCompleted", "True",
                                                  "ClusterDeploymentCompleted", "Cluster deployment is complete")>>) >>,
                failures |-> <<EvenScenario>>,
                dependsOnAccountClaim |-> FALSE, dependsOnProjectClaim |-> FALSE ],
              [ DefaultClusterDeploymentConfig EXCEPT !.states = <<StateConfig("Pending", -1, <<>>)>> ],
              [ DefaultClusterDeploymentConfig EXCEPT !.failures = <<OverCertainScenario>> ],
              [ DefaultClusterDeploymentConfig EXCEPT !.defaultDelaySeconds = -1 ] }
      [] kind = "AccountClaim" ->
            { [ DefaultAccountClaimConfig EXCEPT !.states = <<StateConfig("Ready", 2, <<>>)>> ] }
      [] kind = "ProjectClaim" ->
            { [ DefaultProjectClaimConfig EXCEPT !.states = <<StateConfig("Ready", 2, <<>>)>> ] }

\* the configuration files the simulator may be started with: none, and the
\* files that carry one section
ConfigFiles ==
    {[path |-> "", sections |-> [k \in Kinds |-> <<>>]]} \cup
    UNION {{[path |-> "config.yaml", sections |-> [k \in Kinds |-> IF k = kind THEN <<c>> ELSE <<>>]] :
                c \in KindConfigs(kind)} : kind \in Kinds}

\* the request bodies of the configuration routes: <<>> is a body that does
\* not decode, <<c>> one that decodes to c
ConfigBodies(kind) == {<<>>} \cup {<<c>> : c \in KindConfigs(kind)}

\* an update that copies the new states into the configuration object in
\* place and leaves its other fields as they were
UpdateKindConfigInPlace(cfg, kind, new) == [cfg EXCEPT ![kind].states = new.states]

\* Engine.UpdateClusterDeploymentConfig / UpdateAccountClaimConfig /
\* UpdateProjectClaimConfig: the configuration after the call
UpdateKindConfig(cfg, kind, new) == [cfg EXCEPT ![kind] = new]

\* Handlers.UpdateClusterDeploymentConfig / UpdateAccountClaimConfig /
\* UpdateProjectClaimConfig: POST /api/v1/config/<kind>
UpdateConfig(kind, body) ==
    /\ IF body = <<>>
       THEN /\ config' = config
            /\ last' = [op |-> "UpdateConfig", kind |-> kind, body |-> body, status |-> 400]
       ELSE /\ config' = UpdateKindConfig(config, kind, body[1])
            /\ last' = [op |-> "UpdateConfig", kind |-> kind, body |-> body, status |-> 200]
    /\ UNCHANGED <<calls, smConfig, overrides, cds, acs, pcs, secrets, clock, hist>>

\* Handlers.SetResourceFailure: POST /api/v1/overrides/{resourceType}/{namespace}/{name}/failure
SetResourceFailure(resourceType, namespace, name, failure) ==
    SetResourceOverride(resourceType, namespace, name,
                        ResourceOverride(name, <<>>, <<failure>>, FALSE))

\* Handlers.SetResourceDelay: POST /api/v1/overrides/{resourceType}/{namespace}/{name}/delay
SetResourceDelay(resourceType, namespace, name, delaySeconds) ==
    SetResourceOverride(resourceType, namespace, name,
                        ResourceOverride(name, <<delaySeconds>>, <<>>, FALSE))

\* Handlers.SetResourceSuccess: POST /api/v1/overrides/{resourceType}/{namespace}/{name}/success
SetResourceSuccess(resourceType, namespace, name) ==
    SetResourceOverride(resourceType, namespace, name,
                        ResourceOverride(name, <<>>, <<>>, TRUE))

\* Handlers.Reset: POST /api/v1/reset; all it calls is Engine.ClearAllOverrides
Reset ==
    /\ overrides' = <<>>
    /\ last' = [op |-> "Reset", removed |-> DOMAIN overrides, status |-> 200]
    /\ UNCHANGED <<calls, smConfig, config, cds, acs, pcs, secrets, clock, hist>>

-----------------------------------------------------------------------------
(* The simulator under configuration updates: one resource of each kind is  *)
(* reconciled while requests replace the configuration                      *)

\* the states applied to one resource before this world stops reconciling it
MaxAPIApplied == 2

InitConfig ==
    /\ \E file \in ConfigFiles :
         /\ LoadFromFile(file).err = ""
         /\ config = LoadFromFile(file).cfg
    /\ smConfig = config
    /\ overrides = <<>>
    /\ cds = [k \in CDKeys |-> IF k = <<"ns1", "c1">> THEN NewClusterDeployment(k, NoLabels) ELSE NoObj]
    /\ acs = [k \in ACKeys |-> IF k = <<"ns1", "a1">> THEN NewClaim(k, NoLabels, "", "") ELSE NoObj]
    /\ pcs = [k \in PCKeys |-> IF k = <<"ns1", "p1">> THEN NewClaim(k, NoLabels, "", "") ELSE NoObj]
    /\ secrets = {}
    /\ clock = StartTime
    /\ hist = [r \in Resources |-> <<>>]
    /\ last = [op |-> "NewEngine"]
    /\ calls = NoCalls

NextConfig ==
    \/ \E kind \in Kinds : \E body \in ConfigBodies(kind) : UpdateConfig(kind, body)
    \/ /\ Len(hist[<<"ClusterDeployment", "ns1", "c1">>]) < MaxAPIApplied
       /\ ReconcileClusterDeployment(<<"ns1", "c1">>)
    \/ /\ Len(hist[<<"AccountClaim", "ns1", "a1">>]) < MaxAPIApplied
       /\ ReconcileAccountClaim(<<"ns1", "a1">>)
    \/ /\ Len(hist[<<"ProjectClaim", "ns1", "p1">>]) < MaxAPIApplied
       /\ ReconcileProjectClaim(<<"ns1", "p1">>)

SpecConfig == InitConfig /\ [][NextConfig]_vars

-----------------------------------------------------------------------------
(* The simulator under its override API: two ClusterDeployments are         *)
(* reconciled while requests set and clear overrides for one of them and    *)
(* replace the ClusterDeployment configuration                              *)

\* the {resourceType} segment of the override routes: the spelling of the
\* documented routes, and the spelling the reconcilers ask the engine with
DocumentedType == "clusterdeployment"
RouteTypes == {DocumentedType, "ClusterDeployment"}

\* the ClusterDeployment the requests are about, and the other one
Targeted == <<"ns1", "c1">>
Untargeted == <<"ns1", "c2">>

\* the ClusterDeployment configuration of KindConfigs that validate accepts
AcceptedConfigs ==
    {c \in KindConfigs("ClusterDeployment") :
        validate([DefaultConfig EXCEPT !["ClusterDeployment"] = c]) = ""}

InitAPI ==
    /\ config = LoadFromFile([path |-> "", sections |-> [k \in Kinds |-> <<>>]]).cfg
    /\ smConfig = config
    /\ overrides = <<>>
    /\ cds = [k \in CDKeys |-> NewClusterDeployment(k, NoLabels)]
    /\ acs = [k \in ACKeys |-> NoObj]
    /\ pcs = [k \in PCKeys |-> NoObj]
    /\ secrets = {}
    /\ clock = StartTime
    /\ hist = [r \in Resources |-> <<>>]
    /\ last = [op |-> "NewEngine"]
    /\ calls = NoCalls

NextAPI ==
    \/ \E c \in AcceptedConfigs : UpdateConfig("ClusterDeployment", <<c>>)
    \/ \E rt \in RouteTypes : SetResourceFailure(rt, Targeted[1], Targeted[2], ForcedScenario)
    \/ \E rt \in RouteTypes : SetResourceDelay(rt, Targeted[1], Targeted[2], 30)
    \/ \E rt \in RouteTypes : SetResourceSuccess(rt, Targeted[1], Targeted[2])
    \/ \E rt \in RouteTypes : ClearResourceOverride(rt, Targeted[1], Targeted[2])
    \/ Reset
    \/ \E key \in CDKeys :
         /\ Len(hist[<<"ClusterDeployment", key[1], key[2]>>]) < MaxAPIApplied
         /\ ReconcileClusterDeployment(key)
    \/ Tick

SpecAPI == InitAPI /\ [][NextAPI]_vars

-----------------------------------------------------------------------------
(* The behavior engine under concurrent callers: each call is a sequence of *)
(* steps, from taking the lock e.mu to returning                            *)

\* the calls that take e.mu for reading, and those that take it for writing
ReadOps == {"ShouldFail", "GetTransitionDelay", "GetConfig"}
WriteOps == {"SetResourceOverride", "ClearResourceOverride", "ClearAllOverrides", "UpdateConfig"}

\* the positions at which a call holds e.mu
ReadLocked(c) == calls[c].op \in ReadOps /\ calls[c].pc \in {"read", "roll", "runlock"}
WriteLocked(c) == calls[c].op \in WriteOps /\ calls[c].pc = "write"

\* RLock and Lock return
CanRLock == \A c \in Callers : ~WriteLocked(c)
CanLock == \A c \in Callers : ~WriteLocked(c) /\ ~ReadLocked(c)

\* the resource the concurrent callers ask about and set overrides for
ConcTarget == <<"ClusterDeployment", "ns1", "c1">>

\* the overrides the concurrent callers register
ConcOverrides ==
    { ResourceOverride(ConcTarget[3], <<30>>, <<>>, FALSE),
      ResourceOverride(ConcTarget[3], <<>>, <<ForcedScenario>>, FALSE) }

\* the replacements the concurrent callers ask for: <<kind, new configuration>>
ConcUpdates ==
    {<<"ClusterDeployment", c>> : c \in AcceptedConfigs \cup {DefaultClusterDeploymentConfig}}
        \cup {<<"AccountClaim", c>> : c \in KindConfigs("AccountClaim")}

\* the write a call makes while it holds the lock
Writes ==
    {[op |-> "SetResourceOverride", pc |-> "write",
      key |-> makeKey(ConcTarget[1], ConcTarget[2], ConcTarget[3]), override |-> o] :
        o \in ConcOverrides}
    \cup {[op |-> "ClearResourceOverride", pc |-> "write",
           key |-> makeKey(ConcTarget[1], ConcTarget[2], ConcTarget[3])]}
    \cup {[op |-> "ClearAllOverrides", pc |-> "write"]}
    \cup {[op |-> "UpdateConfig", pc |-> "write", kind |-> u[1], new |-> u[2]] : u \in ConcUpdates}

\* nothing read yet of any kind's configuration
NoneSeen == [k \in Kinds |-> <<>>]

\* the order in which the fields of Config are encoded
KindOrder == <<"ClusterDeployment", "AccountClaim", "ProjectClaim">>

\* the first scenario from index i on for which the loop of ShouldFail draws
\* a sample, 0 when there is none
NextRoll(scenarios, i) ==
    LET m == {j \in i..Len(scenarios) : scenarios[j].probability > 0}
    IN  IF m = {} THEN 0 ELSE SeqMin(m)

\* a caller enters ShouldFail, GetTransitionDelay or Engine.GetConfig: RLock
BeginRead(c, op) ==
    /\ calls[c] = Idle
    /\ CanRLock
    /\ calls' = [calls EXCEPT ![c] =
            [ op |-> op, pc |-> "read", seen |-> NoneSeen,
              window |-> [k \in Kinds |-> {config[k]}],
              scenarios |-> <<>>, i |-> 0, ret |-> <<>> ]]
    /\ UNCHANGED <<smConfig, config, overrides, cds, acs, pcs, secrets, clock, hist, last>>

\* the reads a call makes under the read lock: the override of the resource
\* and, in ShouldFail, the scenarios of the kind
Read(c) ==
    /\ calls[c].op \in ReadOps /\ calls[c].pc = "read"
    /\ LET key == makeKey(ConcTarget[1], ConcTarget[2], ConcTarget[3])
           forced == key \in DOMAIN overrides /\
                     (overrides[key].forceSuccess \/ overrides[key].forceFail # <<>>)
           scenarios == ScenariosOf(config, ConcTarget[1])
       IN  calls' = [calls EXCEPT ![c] =
             CASE @.op = "GetTransitionDelay" ->
                    [@ EXCEPT !.pc = "runlock",
                              !.ret = <<GetTransitionDelay(overrides, ConcTarget[1], ConcTarget[2],
                                                           ConcTarget[3], 5)>>]
               [] @.op = "GetConfig" -> [@ EXCEPT !.pc = "runlock"]
               [] @.op = "ShouldFail" /\ forced ->
                    [@ EXCEPT !.pc = "runlock",
                              !.ret = <<ShouldFail(overrides, config, ConcTarget[1], ConcTarget[2],
                                                   ConcTarget[3], <<>>)>>]
               [] OTHER ->
                    [@ EXCEPT !.seen[ConcTarget[1]] = <<config[ConcTarget[1]]>>,
                              !.scenarios = scenarios,
                              !.i = NextRoll(scenarios, 1),
                              !.pc = IF NextRoll(scenarios, 1) = 0 THEN "runlock" ELSE "roll",
                              !.ret = <<NoFailure>>]]
    /\ UNCHANGED <<smConfig, config, overrides, cds, acs, pcs, secrets, clock, hist, last>>

\* ShouldFail draws a sample from e.rng for the scenario it is at
Roll(c) ==
    /\ calls[c].op = "ShouldFail" /\ calls[c].pc = "roll"
    /\ \E roll \in Rolls :
         LET call == calls[c]
             next == NextRoll(call.scenarios, call.i + 1)
         IN  calls' = [calls EXCEPT ![c] =
                IF roll < call.scenarios[call.i].probability
                THEN [@ EXCEPT !.pc = "runlock",
                               !.ret = <<[fail |-> TRUE, failure |-> <<call.scenarios[call.i]>>]>>]
                ELSE [@ EXCEPT !.i = next,
                               !.pc = IF next = 0 THEN "runlock" ELSE "roll"]]
    /\ UNCHANGED <<smConfig, config, overrides, cds, acs, pcs, secrets, clock, hist, last>>

\* RUnlock: ShouldFail and GetTransitionDelay return; Engine.GetConfig
\* returns the pointer e.config to Handlers.GetConfig, which encodes it
Return(c) ==
    /\ calls[c].op \in ReadOps /\ calls[c].pc = "runlock"
    /\ IF calls[c].op = "GetConfig"
       THEN /\ calls' = [calls EXCEPT ![c].pc = "encode", ![c].i = 1]
            /\ last' = last
       ELSE /\ calls' = [calls EXCEPT ![c] = Idle]
            /\ last' = [op |-> calls[c].op, caller |-> c, ret |-> calls[c].ret,
                        seen |-> calls[c].seen, window |-> calls[c].window]
    /\ UNCHANGED <<smConfig, config, overrides, cds, acs, pcs, secrets, clock, hist>>

\* Handlers.GetConfig encodes the next field of the Config it was handed:
\* it follows the pointer that field holds at this moment
Encode(c) ==
    /\ calls[c].op = "GetConfig" /\ calls[c].pc = "encode"
    /\ LET k == KindOrder[calls[c].i]
           call == [calls[c] EXCEPT !.seen[k] = <<config[k]>>, !.i = @ + 1]
       IN  IF call.i > Len(KindOrder)
           THEN /\ calls' = [calls EXCEPT ![c] = Idle]
                /\ last' = [op |-> "GetConfig", caller |-> c, ret |-> <<>>,
                            seen |-> call.seen, window |-> call.window]
           ELSE /\ calls' = [calls EXCEPT ![c] = call]
                /\ last' = last
    /\ UNCHANGED <<smConfig, config, overrides, cds, acs, pcs, secrets, clock, hist>>

\* a caller enters SetResourceOverride, ClearResourceOverride,
\* ClearAllOverrides or an Update*Config: Lock
BeginWrite(c, w) ==
    /\ calls[c] = Idle
    /\ CanLock
    /\ calls' = [calls EXCEPT ![c] = w]
    /\ UNCHANGED <<smConfig, config, overrides, cds, acs, pcs, secrets, clock, hist, last>>

\* the calls in progress have one more configuration of this kind in the
\* time they span
Widen(cs, kind, new) ==
    [d \in Callers |-> IF cs[d].op \in ReadOps
                       THEN [cs[d] EXCEPT !.window[kind] = @ \cup {new}] ELSE cs[d]]

\* the write, Unlock and the return
Write(c) ==
    /\ calls[c].op \in WriteOps /\ calls[c].pc = "write"
    /\ LET w == calls[c]
       IN  /\ overrides' = CASE w.op = "SetResourceOverride" -> SetOverride(overrides, w.key, w.override)
                             [] w.op = "ClearResourceOverride" -> ClearOverride(overrides, w.key)
                             [] w.op = "ClearAllOverrides" -> <<>>
                             [] OTHER -> overrides
           /\ config' = IF w.op = "UpdateConfig" THEN UpdateKindConfig(config, w.kind, w.new)
                        ELSE config
           /\ calls' = IF w.op = "UpdateConfig"
                       THEN Widen([calls EXCEPT ![c] = Idle], w.kind, w.new)
                       ELSE [calls EXCEPT ![c] = Idle]
           /\ last' = [op |-> w.op, caller |-> c, call |-> w, before |-> config]
    /\ UNCHANGED <<smConfig, cds, acs, pcs, secrets, clock, hist>>

InitConc ==
    /\ config = DefaultConfig
    /\ smConfig = config
    /\ overrides = <<>>
    /\ EmptyStore
    /\ last = [op |-> "NewEngine"]
    /\ calls = NoCalls

NextConc ==
    \/ \E c \in Callers, op \in ReadOps : BeginRead(c, op)
    \/ \E c \in Callers : Read(c)
    \/ \E c \in Callers : Roll(c)
    \/ \E c \in Callers : Return(c)
    \/ \E c \in Callers : Encode(c)
    \/ \E c \in Callers, w \in Writes : BeginWrite(c, w)
    \/ \E c \in Callers : Write(c)

SpecConc == InitConc /\ [][NextConc]_vars

-----------------------------------------------------------------------------
(* Properties of the runtime configuration *)

\* what the state machine of a kind answers for an object under a configuration
NextStateUnder(cfg, kind, obj) ==
    CASE kind = "ClusterDeployment" -> CDGetNextState(cfg[kind], obj)
      [] kind = "AccountClaim" -> ACGetNextState(cfg[kind], obj)
      [] kind = "ProjectClaim" -> PCGetNextState(cfg[kind], obj)

\* the last operation was a reconciliation that got as far as the engine
Reconciled == last.op = "Reconcile" /\ last.consulted

\* the failure a reconciliation applied is a scenario of the engine's current
\* configuration of the kind, and the kinds its dependency check looked at
\* are kinds that configuration names
EngineReadsCurrentConfig ==
    /\ last.failure # <<>> =>
          \E i \in 1..Len(config[last.kind].failures) :
              config[last.kind].failures[i] = last.failure[1]
    /\ last.dep # <<>> =>
          last.dep[1].checked \subseteq
              ((IF config[last.kind].dependsOnAccountClaim THEN {"AccountClaim"} ELSE {}) \cup
               (IF config[last.kind].dependsOnProjectClaim THEN {"ProjectClaim"} ELSE {}))

\* C22: a reconciliation uses the engine's current configuration of its kind
\* (the one the last UpdateConfig installed) throughout: the next state and
\* its duration are those GetNextState answers under it, a ClusterDeployment
\* waits for dependencies exactly when its flags say so, and an applied
\* failure is one of its scenarios.
C22_UpdatedConfigUsed ==
    Reconciled =>
        /\ last.next # <<>> => last.next[1] = NextStateUnder(config, last.kind, last.pre)
        /\ (last.kind = "ClusterDeployment" /\ last.failure = <<>>) =>
              ((last.dep # <<>>) <=> ShouldWaitForDependencies(config["ClusterDeployment"]))
        /\ EngineReadsCurrentConfig

\* the part of C22 that holds: ShouldFail and the dependency check read the
\* current configuration, while the state sequence, the durations and the
\* decision to wait are those of the configuration the simulator started with
C22_StateMachineKeepsStartConfig ==
    Reconciled =>
        /\ last.next # <<>> => last.next[1] = NextStateUnder(smConfig, last.kind, last.pre)
        /\ (last.kind = "ClusterDeployment" /\ last.failure = <<>>) =>
              ((last.dep # <<>>) <=> ShouldWaitForDependencies(smConfig["ClusterDeployment"]))
        /\ EngineReadsCurrentConfig

\* the configuration with one kind's part replaced by a request body's
WithBody(kind, body) == [DefaultConfig EXCEPT ![kind] = body[1]]

\* C23: the engine's configuration always passes validate, and a request
\* that carries a configuration validate rejects is not answered with success.
C23_InvalidConfigRejected ==
    /\ validate(config) = ""
    /\ (last.op = "UpdateConfig" /\ last.body # <<>>
            /\ validate(WithBody(last.kind, last.body)) # "")
        => last.status # 200

\* the part of C23 that holds: the configuration the simulator starts with
\* passes validate, the files validate rejects are not loaded, and scenarios
\* of probability 0.0, 0.5 and 1.0 are accepted
C23_FileLoadValidates ==
    /\ validate(smConfig) = ""
    /\ \A file \in ConfigFiles :
          (file.path # "" /\ validate(FillDefaults(file.sections)) # "") => LoadFromFile(file).err # ""
    /\ \A sl \in ScenarioLists :
          validate([DefaultConfig EXCEPT !["ClusterDeployment"].failures = sl]) = ""

-----------------------------------------------------------------------------
(* Properties of the override and reset routes *)

DocumentedKey == makeKey(DocumentedType, Targeted[1], Targeted[2])
ReconcilerKey == makeKey("ClusterDeployment", Targeted[1], Targeted[2])

\* the last operation was a reconciliation of this ClusterDeployment that
\* fetched it and found it neither deleted nor installed
ReconciledLive(key) ==
    /\ last.op = "Reconcile" /\ last.kind = "ClusterDeployment" /\ last.key = key
    /\ last.result.err # "get"
    /\ ~CDSkip(last.pre)

\* the reconciliations of the other ClusterDeployment apply no forced failure
OthersUnaffected ==
    ReconciledLive(Untargeted) => (last.failure # <<ForcedScenario>>)

\* C26: while the registry holds a forced failure set through the documented
\* route .../overrides/clusterdeployment/{namespace}/{name}/failure (and no
\* override under another spelling of the kind), a reconciliation of that
\* not-yet-installed ClusterDeployment applies that failure, and the
\* reconciliations of the other ClusterDeployment do not.
C26_DocumentedRouteFailureApplied ==
    /\ (/\ ReconciledLive(Targeted)
        /\ DocumentedKey \in DOMAIN overrides
        /\ overrides[DocumentedKey].forceFail # <<>>
        /\ ReconcilerKey \notin DOMAIN overrides)
       => last.failure = overrides[DocumentedKey].forceFail
    /\ OthersUnaffected

\* the part of C26 that holds: a forced failure registered under the
\* spelling "ClusterDeployment" is applied, the other ClusterDeployment is
\* unaffected, and an override under the documented spelling alone changes
\* nothing: the failure applied, if any, is a configured scenario
C26_ReconcilerSpellingFailureApplied ==
    /\ (/\ ReconciledLive(Targeted)
        /\ ReconcilerKey \in DOMAIN overrides
        /\ overrides[ReconcilerKey].forceFail # <<>>)
       => last.failure = overrides[ReconcilerKey].forceFail
    /\ OthersUnaffected
    /\ (ReconciledLive(Targeted) /\ ReconcilerKey \notin DOMAIN overrides)
       => (last.failure # <<ForcedScenario>>)

\* C27: after Reset the override registry is empty and every kind's
\* configuration is the one the simulator was started with (the one the
\* state machines were built from).
C27_ResetRestoresConfig ==
    last.op = "Reset" => (overrides = <<>> /\ config = smConfig)

\* the part of C27 that holds: after Reset the override registry is empty
C27_ResetClearsOverrides ==
    last.op = "Reset" => overrides = <<>>

\* C30: every step changes the override registry only as the operation it
\* takes says: SetResourceOverride sets exactly the given key and keeps the
\* others, ClearResourceOverride removes exactly the given key and keeps the
\* others, ClearAllOverrides (Reset) removes every key, and a reconciliation
\* (with its ShouldFail and GetTransitionDelay), UpdateConfig and the passing
\* of time leave the registry as it is.
C30_RegistryFrame ==
    [][ /\ last'.op = "SetResourceOverride" =>
              /\ DOMAIN overrides' = DOMAIN overrides \cup {last'.key}
              /\ overrides'[last'.key] = last'.override
              /\ \A k \in DOMAIN overrides \ {last'.key} : overrides'[k] = overrides[k]
        /\ last'.op = "ClearResourceOverride" =>
              /\ DOMAIN overrides' = DOMAIN overrides \ {last'.key}
              /\ \A k \in DOMAIN overrides' : overrides'[k] = overrides[k]
        /\ last'.op \in {"ClearAllOverrides", "Reset"} => DOMAIN overrides' = {}
        /\ last'.op \notin {"SetResourceOverride", "ClearResourceOverride",
                            "ClearAllOverrides", "Reset"} => overrides' = overrides
      ]_vars

\* C30 happens: an override set for one spelling of the resource is still
\* registered, next to one for the other spelling, after the configuration
\* was replaced, time has passed and the resource was reconciled
C30_Witness ==
    /\ last.op = "Reconcile" /\ last.key = Targeted /\ last.consulted
    /\ DocumentedKey \in DOMAIN overrides
    /\ overrides[DocumentedKey].delaySeconds = <<30>>
    /\ ReconcilerKey \in DOMAIN overrides
    /\ config # smConfig
    /\ clock # StartTime

-----------------------------------------------------------------------------
(* Properties of the engine under concurrent callers *)

\* what a call saw of each kind's configuration is one of the complete
\* configurations of that kind that were current while the call ran
SawWhole(seen, window) == \A k \in Kinds : seen[k] # <<>> => seen[k][1] \in window[k]

\* C24: a ShouldFail or GetConfig that runs while a kind's configuration is
\* replaced sees, for each kind, the complete configuration from before or
\* the complete one from after the replacement; and the replacement installs
\* exactly the new configuration for its kind and leaves the other kinds'
\* configurations as they were.
C24_OldOrNewNeverMixed ==
    /\ \A c \in Callers :
          calls[c].op \in ReadOps => SawWhole(calls[c].seen, calls[c].window)
    /\ last.op \in ReadOps => SawWhole(last.seen, last.window)
    /\ last.op = "UpdateConfig" =>
          /\ config[last.call.kind] = last.call.new
          /\ \A k \in Kinds \ {last.call.kind} : config[k] = last.before[k]

\* C24 happens: a GetConfig has returned during which the ClusterDeployment
\* configuration was replaced by a different one after the call had taken
\* the lock; it saw the new one, complete, and the other kinds' as they were
C24_Witness ==
    /\ last.op = "GetConfig"
    /\ Cardinality(last.window["ClusterDeployment"]) = 2
    /\ last.seen["ClusterDeployment"] = <<config["ClusterDeployment"]>>
    /\ config["ClusterDeployment"] # DefaultClusterDeploymentConfig
    /\ last.seen["AccountClaim"] = <<DefaultAccountClaimConfig>>

\* the shared engine state the next step of a call reads ("r") or writes ("w")
Accesses(c) ==
    LET call == calls[c]
    IN  CASE call.op = "ShouldFail" /\ call.pc = "read" ->
                {<<"overrides", "r">>, <<"config." \o ConcTarget[1], "r">>}
          [] call.op = "GetTransitionDelay" /\ call.pc = "read" -> {<<"overrides", "r">>}
          [] call.op = "ShouldFail" /\ call.pc = "roll" -> {<<"rng", "w">>}
          [] call.op = "GetConfig" /\ call.pc = "encode" ->
                {<<"config." \o KindOrder[call.i], "r">>}
          [] call.op \in {"SetResourceOverride", "ClearResourceOverride", "ClearAllOverrides"} ->
                {<<"overrides", "w">>}
          [] call.op = "UpdateConfig" -> {<<"config." \o call.kind, "w">>}
          [] OTHER -> {}

\* two calls are about to access the same shared state, one of them writing
Conflict(c, d) ==
    \E a \in Accesses(c), b \in Accesses(d) : a[1] = b[1] /\ "w" \in {a[2], b[2]}

\* C25: in no reachable state are two engine calls about to access the same
\* piece of shared engine state (configuration, override registry, random
\* source) with at least one of them writing it.
C25_NoConflictingAccess ==
    \A c, d \in Callers : c # d => ~Conflict(c, d)

\* the part of C25 that holds: the override registry is never accessed by
\* two calls at once when one of them writes it
C25_RegistryGuarded ==
    \A c, d \in Callers :
        c # d => ~(\E a \in Accesses(c), b \in Accesses(d) :
                      a[1] = "overrides" /\ b[1] = "overrides" /\ "w" \in {a[2], b[2]})

\* two calls of ShouldFail hold the read lock and are both about to draw a
\* sample from the one random source
BothDrawing ==
    \E c, d \in Callers :
        c # d /\ calls[c].op = "ShouldFail" /\ calls[c].pc = "roll"
              /\ calls[d].op = "ShouldFail" /\ calls[d].pc = "roll"

-----------------------------------------------------------------------------
(* Properties of the reconcilers' writes: the credential secret and the
   writes of a cycle that ends in an error *)

ClaimKinds == {"AccountClaim", "ProjectClaim"}

\* the last reconciliation was a claim's, it applied Ready to a claim that
\* names a credential secret, and so went on to createCredentialsSecret
ReachedSecretCreation ==
    /\ last.op = "Reconcile"
    /\ last.kind \in ClaimKinds
    /\ last.applied = ClaimStatusReady
    /\ last.pre.secretName # ""
    /\ {"status", "spec"} \subseteq last.writes

\* the credential secret the last reconciliation's claim names
LastSecretRef == <<last.pre.secretNamespace, last.pre.secretName>>

\* C28: a claim reconciliation that reaches the creation of the credential
\* secret and ends with the secret in the store though it did not create it
\* itself (another actor did, before the reconciler's Create) completes
\* without error, unless the existence check itself failed.
C28_SecretAlreadyExistsTolerated ==
    (ReachedSecretCreation /\ LastSecretRef \in secrets /\ "secret" \notin last.writes
        /\ last.result.err # "secretGet")
        => last.result.err = ""

\* the part of C28 that holds: a secret that exists before the reconciler's
\* existence check is tolerated; the reconciliation creates nothing and
\* ends without error unless the check itself fails
C28_EarlierSecretTolerated ==
    [][ (hist' # hist /\ last'.op = "Reconcile" /\ last'.kind \in ClaimKinds
            /\ last'.applied = ClaimStatusReady /\ last'.pre.secretName # ""
            /\ {"status", "spec"} \subseteq last'.writes
            /\ <<last'.pre.secretNamespace, last'.pre.secretName>> \in secrets)
         => /\ last'.result.err \in {"", "secretGet"}
            /\ "secret" \notin last'.writes
            /\ secrets' = secrets ]_vars

\* the secret was created by another actor between the existence check and
\* the Create of the last reconciliation
SecretRaceHappened ==
    ReachedSecretCreation /\ last.result.err = "secretExists" /\ LastSecretRef \in secrets

\* everything the last reconciliation's cycle set out to persist is in the
\* store: the status, the spec fields where the cycle writes them, and the
\* credential secret where the cycle needs one
AllPersisted ==
    IF last.kind = "ClusterDeployment"
    THEN /\ "status" \in last.writes
         /\ (last.next # <<>>
               /\ CDApplyState(smConfig["ClusterDeployment"], last.pre,
                               last.next[1].state).obj.installed)
                => "spec" \in last.writes
    ELSE /\ "status" \in last.writes
         /\ last.next # <<>> => "spec" \in last.writes
         /\ (last.next # <<>> /\ last.next[1].state = ClaimStatusReady
               /\ last.pre.secretName # "")
                => LastSecretRef \in secrets

\* C29: a reconciliation that returns a store error (a cancelled call
\* returns one too) leaves in the store either everything its cycle set out
\* to persist or nothing of it.
C29_NoPartialPersistence ==
    (last.op = "Reconcile" /\ last.result.err \in StoreErrors)
        => (last.writes = {} \/ AllPersisted)

\* the part of C29 that holds: an error at the fetch, at the listing of the
\* claims or at the first write leaves the stored object as it was
C29_EarlyErrorWritesNothing ==
    (last.op = "Reconcile" /\ last.result.err \in {"get", "list", "status"})
        => (last.writes = {} /\ last.obj = last.pre)

\* a reconciliation has returned an error after its status write was stored
\* and its spec write was not
StatusWithoutSpec ==
    /\ last.op = "Reconcile"
    /\ last.result.err = "spec"
    /\ last.writes = {"status"}

-----------------------------------------------------------------------------
(* Properties of the state machines: unknown states, progress, conditions
   and terminal markers *)

\* the current state of obj is non-empty and names no entry of states
UnknownState(kind, obj, states) ==
    /\ CurrentState(kind, obj) # ""
    /\ \A i \in 1..Len(states) : states[i].name # CurrentState(kind, obj)

\* C31: for every kind, a resource whose current state (stored for a claim,
\* derived for a ClusterDeployment) is non-empty and names no entry of a
\* non-empty configured sequence gets from GetNextState the first configured
\* state with that state's duration; a reconciliation of such a resource
\* computes exactly that as its next state.
C31_UnknownStateRestarts ==
    /\ \A s \in Stored : s[2].exists =>
          \A states \in SeqsUpTo(GeneratedStates(s[1]), MaxStates) :
              (Len(states) > 0 /\ UnknownState(s[1], s[2], states))
                  => NextStateUnder([smConfig EXCEPT ![s[1]].states = states], s[1], s[2])
                        = [state |-> states[1].name, duration |-> states[1].dur]
    /\ (last.op = "Reconcile" /\ last.next # <<>>
            /\ Len(smConfig[last.kind].states) > 0
            /\ UnknownState(last.kind, last.pre, smConfig[last.kind].states))
          => last.next[1] = [state |-> smConfig[last.kind].states[1].name,
                             duration |-> smConfig[last.kind].states[1].dur]

\* C31 happens: a reconciliation has applied the first configured state to
\* a ClusterDeployment whose derived state "Pending" the sequence does not
\* have
C31_Witness ==
    /\ last.op = "Reconcile" /\ last.kind = "ClusterDeployment"
    /\ last.next # <<>>
    /\ Len(smConfig[last.kind].states) > 0
    /\ UnknownState(last.kind, last.pre, smConfig[last.kind].states)
    /\ last.applied = smConfig[last.kind].states[1].name
    /\ "status" \in last.writes

\* a claim is stored in a state that a sequence of its kind does not have
UnknownClaimState ==
    /\ last.op = "Reconcile" /\ last.kind \in ClaimKinds
    /\ last.obj.state # ""
    /\ \E states \in SeqsUpTo(GeneratedStates(last.kind), MaxStates) :
          Len(states) > 0 /\ UnknownState(last.kind, last.obj, states)

-----------------------------------------------------------------------------
(* One fresh resource of every kind under sequences with and without
   conditions *)

\* createTestClusterDeploymentConfig: the four states, none with conditions
TestClusterDeploymentConfig ==
    [ defaultDelaySeconds |-> 5,
      states |-> << StateConfig("Pending", 1, <<>>), StateConfig("Provisioning", 2, <<>>),
                    StateConfig("Installing", 1, <<>>), StateConfig("Running", 1, <<>>) >>,
      failures |-> <<>>,
      dependsOnAccountClaim |-> TRUE,
      dependsOnProjectClaim |-> TRUE ]

\* the configurations the simulator is started with: the default one, and the
\* default one with the ClusterDeployment sequence declared without conditions
ProgressConfigs ==
    {DefaultConfig, [DefaultConfig EXCEPT !["ClusterDeployment"] = TestClusterDeploymentConfig]}

\* one ClusterDeployment without a correlation label (no claim is needed) and
\* one claim of either kind, all fresh
InitProgress ==
    /\ config \in ProgressConfigs
    /\ smConfig = config
    /\ cds = [k \in CDKeys |-> IF k = <<"ns1", "c1">>
                               THEN NewClusterDeployment(k, NoLabels) ELSE NoObj]
    /\ acs = [k \in ACKeys |-> IF k = <<"ns1", "a1">>
                               THEN NewClaim(k, NoLabels, "", "") ELSE NoObj]
    /\ pcs = [k \in PCKeys |-> IF k = <<"ns1", "p1">>
                               THEN NewClaim(k, NoLabels, "", "") ELSE NoObj]
    /\ overrides = <<>>
    /\ secrets = {}
    /\ clock = StartTime
    /\ hist = [r \in Resources |-> <<>>]
    /\ last = [op |-> "NewEngine"]
    /\ calls = NoCalls

NextProgress ==
    \/ ReconcileClusterDeployment(<<"ns1", "c1">>)
    \/ ReconcileAccountClaim(<<"ns1", "a1">>)
    \/ ReconcileProjectClaim(<<"ns1", "p1">>)
    \/ Tick

SpecProgress == InitProgress /\ [][NextProgress]_vars

\* the positions in the configured sequence of a kind of the states applied
\* to a resource never repeat and never go back
InOrder(r) ==
    \A i, j \in 1..Len(hist[r]) :
        i < j => FirstNamed(smConfig[r[1]].states, hist[r][i])
                    < FirstNamed(smConfig[r[1]].states, hist[r][j])

\* C32 (safety part): no failure is configured and no claim is needed, and
\* the successive reconciliations of every resource apply configured states
\* at strictly increasing positions of the kind's sequence: none is applied
\* twice and none after a later one.
C32_AdvancesInOrder ==
    \A r \in Resources : InOrder(r)

\* the part of C32 that holds: under the default configuration, whose
\* ClusterDeployment states declare the conditions the current state is
\* derived from, every resource advances in order, and a resource that has
\* had as many state applications as there are states after the first is in
\* the last configured state
C32_DefaultSequenceInOrder ==
    config = DefaultConfig =>
        /\ \A r \in Resources : InOrder(r)
        /\ \A s \in Stored :
              (s[2].exists
                 /\ Len(hist[<<s[1], s[2].ns, s[2].name>>]) = Len(smConfig[s[1]].states) - 1)
                => CurrentState(s[1], s[2])
                      = smConfig[s[1]].states[Len(smConfig[s[1]].states)].name

\* a ClusterDeployment is stuck before the last configured state: the next
\* state is not the last one, and applying and storing it leaves the stored
\* object exactly as it is, so that every further reconciliation does the same
StuckBeforeLast ==
    LET cd == cds[<<"ns1", "c1">>]
        smc == smConfig["ClusterDeployment"]
        next == CDGetNextState(smc, cd)
    IN  /\ cd.exists /\ ~CDSkip(cd)
        /\ Len(hist[<<"ClusterDeployment", "ns1", "c1">>]) >= 2
        /\ next.state # smc.states[Len(smc.states)].name
        /\ next.duration > 0
        /\ CDPersistStatus(cd, CDApplyState(smc, cd, next.state).obj) = cd

-----------------------------------------------------------------------------
(* Properties of the order of the reconciler's steps *)

\* what the dependency check answers for the object the last reconciliation
\* fetched, in the store as it is (a ClusterDeployment's reconciliation
\* changes no claim)
DependenciesOfLast ==
    {checkDependencies(config["ClusterDeployment"], last.pre, acList, pcList, "none") :
        acList \in ListOrders(InNamespace(acs, last.pre.ns)),
        pcList \in ListOrders(InNamespace(pcs, last.pre.ns))}

\* C33: in every reconciliation of a ClusterDeployment the engine is asked
\* for a failure before anything else is done; a failure that fires is
\* applied and stored without the dependencies being checked and without the
\* state machine being asked; the dependencies are checked only when no
\* failure fired, the state machine is asked only when the dependencies are
\* ready, a state is stored only after the state machine named it, and a
\* requeue after a state's duration is scheduled only after it was stored.
C33_FailureBeforeDependencies ==
    (last.op = "Reconcile" /\ last.kind = "ClusterDeployment") =>
        /\ last.failure # <<>> =>
              /\ last.consulted /\ last.dep = <<>> /\ last.next = <<>>
              /\ last.writes = {"status"} \/ last.result.err = "status"
              /\ last.writes = {"status"} =>
                    last.obj = CDPersistStatus(last.pre,
                                               CDApplyFailure(last.pre, last.failure[1]))
        /\ last.dep # <<>> => (last.consulted /\ last.failure = <<>>)
        /\ last.next # <<>> =>
              /\ last.consulted /\ last.failure = <<>>
              /\ ShouldWaitForDependencies(smConfig["ClusterDeployment"])
                    => (last.dep # <<>> /\ last.dep[1].ready)
        /\ (last.writes # {} /\ last.failure = <<>>) =>
              (last.next # <<>> /\ last.applied = last.next[1].state)
        /\ (last.result.requeueAfter > 0 /\ last.next # <<>>) => "status" \in last.writes

\* C33 happens: a failure was applied to and stored for a ClusterDeployment
\* that carries a correlation key and whose dependency check, in the store as
\* it is, answers not-ready
C33_Witness ==
    /\ last.op = "Reconcile" /\ last.kind = "ClusterDeployment"
    /\ last.failure # <<>>
    /\ last.writes = {"status"}
    /\ LabelID \in DOMAIN last.pre.labels
    /\ ShouldWaitForDependencies(smConfig["ClusterDeployment"])
    /\ \A d \in DependenciesOfLast : ~d.ready

-----------------------------------------------------------------------------
(* Properties of the walk over the failure scenarios *)

\* scenario i fires on the sample drawn for it
Fires(scenarios, rolls, i) ==
    scenarios[i].probability > 0 /\ rolls[i] < scenarios[i].probability

\* C34: for every resource without an override, every configured scenario
\* list and every sequence of samples, ShouldFail returns (true, s) exactly
\* when s is the first scenario of the list, in declaration order, whose
\* probability is non-zero and exceeds its sample, every earlier scenario not
\* having fired, and returns (false, none) exactly when no scenario fires.
C34_FirstFiringScenario ==
    \A t \in EngineTargets :
        makeKey(t[1], t[2], t[3]) \notin DOMAIN overrides =>
            LET scenarios == ScenariosOf(config, t[1])
            IN  \A rolls \in RollSeqs(config, t[1]) :
                    LET ret == ShouldFail(overrides, config, t[1], t[2], t[3], rolls)
                    IN  /\ ret.fail =>
                              \E i \in 1..Len(scenarios) :
                                  /\ ret.failure = <<scenarios[i]>>
                                  /\ Fires(scenarios, rolls, i)
                                  /\ \A j \in 1..(i - 1) : ~Fires(scenarios, rolls, j)
                        /\ ~ret.fail =>
                              /\ ret.failure = <<>>
                              /\ \A i \in 1..Len(scenarios) : ~Fires(scenarios, rolls, i)

\* C34 happens: ShouldFail was asked about a resource without an override
\* under two different scenarios, the first of probability 0.5 and the second
\* of probability 1.0, and has returned the first one: it fired and the walk
\* stopped there
C34_Witness ==
    /\ last.op = "ShouldFail"
    /\ LastOverride = <<>>
    /\ Len(ScenariosOf(config, last.resourceType)) = 2
    /\ ScenariosOf(config, last.resourceType)[1].probability = ProbScale \div 2
    /\ ScenariosOf(config, last.resourceType)[2].probability = ProbScale
    /\ last.ret.fail
    /\ last.ret.failure = <<ScenariosOf(config, last.resourceType)[1]>>

\* the first scenario did not fire and the second was returned
SecondScenarioReturned ==
    /\ last.op = "ShouldFail"
    /\ LastOverride = <<>>
    /\ Len(ScenariosOf(config, last.resourceType)) = 2
    /\ ScenariosOf(config, last.resourceType)[1].probability = ProbScale \div 2
    /\ last.ret.fail
    /\ last.ret.failure = <<ScenariosOf(config, last.resourceType)[2]>>
    /\ last.ret.failure # <<ScenariosOf(config, last.resourceType)[1]>>

-----------------------------------------------------------------------------
(* Properties of the conditions a state application leaves *)

\* the conditions the configuration of a kind declares for a state
DeclaredConditions(kind, state) ==
    buildConditions(smConfig[kind].states[FirstNamed(smConfig[kind].states, state)])

\* the last reconciliation applied a configured state and stored it
StateStored ==
    /\ last.op = "Reconcile"
    /\ last.failure = <<>>
    /\ last.applied # ""
    /\ "status" \in last.writes
    /\ FirstNamed(smConfig[last.kind].states, last.applied) # 0

\* C35: for every kind, after a state was applied and stored the resource's
\* condition list is exactly the list of conditions the kind's configuration
\* declares for that state, in order.
C35_ConditionsReplaced ==
    StateStored => last.obj.conditions = DeclaredConditions(last.kind, last.applied)

\* the part of C35 that holds: the conditions of a ClusterDeployment are
\* exactly the declared ones, none from before the application remaining
C35_ClusterDeploymentConditionsReplaced ==
    (StateStored /\ last.kind = "ClusterDeployment")
        => last.obj.conditions = DeclaredConditions(last.kind, last.applied)

\* what ApplyState does for a claim instead: the one condition it has for
\* the state name, whatever the configuration declares
C35_ClaimConditionsBuiltIn ==
    (StateStored /\ last.kind \in ClaimKinds)
        => /\ Len(last.obj.conditions) = 1
           /\ last.obj.conditions # DeclaredConditions(last.kind, last.applied)
           /\ \A t \in Times :
                 last.obj.conditions = ApplyStateOf(last.kind, last.pre, last.applied, t).obj.conditions

\* a state was applied to a ClusterDeployment that carried a failure
\* condition, and the failure condition is gone
FailureConditionReplaced ==
    /\ StateStored /\ last.kind = "ClusterDeployment"
    /\ \E i \in 1..Len(last.pre.conditions) : last.pre.conditions[i].type = "ProvisionFailed"
    /\ \A i \in 1..Len(last.obj.conditions) : last.obj.conditions[i].type # "ProvisionFailed"

-----------------------------------------------------------------------------
(* Properties of the terminal markers and derived artifacts *)

\* the name of the last entry of the configured sequence of a kind
LastConfigured(kind) == smConfig[kind].states[Len(smConfig[kind].states)].name

\* the installed flag and the infra id of a ClusterDeployment, the
\* identifier of a claim
HasTerminalMarker(kind, obj) ==
    IF kind = "ClusterDeployment" THEN obj.installed \/ obj.infraID # ""
    ELSE obj.cloudID # ""

\* the access URLs of a ClusterDeployment
HasAccessURL(kind, obj) ==
    kind = "ClusterDeployment" /\ (obj.webConsoleURL # "" \/ obj.apiURL # "")

\* C36: in every reachable state, a stored resource whose current state is
\* not the last entry of its kind's configured sequence carries no terminal
\* marker and no derived artifact: a ClusterDeployment is not installed and
\* has no infra id, no API URL and no console URL, a claim has no account
\* or project identifier.
C36_MarkersOnlyAtLast ==
    \A s \in Stored :
        (s[2].exists /\ Len(smConfig[s[1]].states) > 0
            /\ CurrentState(s[1], s[2]) # LastConfigured(s[1]))
          => (~HasTerminalMarker(s[1], s[2]) /\ ~HasAccessURL(s[1], s[2]))

\* the part of C36 that holds under the configurations whose last state is
\* the one the marker belongs to: the installed flag and the infra id of a
\* ClusterDeployment and the account identifier of an AccountClaim are set
\* only in the last configured state
C36_InstalledOnlyAtLast ==
    \A s \in Stored :
        (s[2].exists /\ s[1] # "ProjectClaim"
            /\ CurrentState(s[1], s[2]) # LastConfigured(s[1]))
          => ~HasTerminalMarker(s[1], s[2])

\* a ClusterDeployment in the state Installing, which is not the last one,
\* carries its access URLs
URLsWhileInstalling ==
    LET cd == cds[<<"ns1", "c1">>]
    IN  /\ cd.exists
        /\ smConfig = DefaultConfig
        /\ getCurrentState(cd) = "Installing"
        /\ cd.apiURL = APIURL(cd.name)
        /\ cd.webConsoleURL = WebConsoleURL(cd.name)

\* a ProjectClaim in the state PendingProject, which is not the last one,
\* carries its project identifier
ProjectIDWhilePending ==
    LET pc == pcs[<<"ns1", "p1">>]
    IN  /\ pc.exists
        /\ pc.state = ClaimStatusPendingProject
        /\ LastConfigured("ProjectClaim") = ClaimStatusReady
        /\ pc.cloudID # ""

-----------------------------------------------------------------------------
(* Properties of the time a resource stays in a state *)

\* the last reconciliation stored a state and scheduled the follow-up after a
\* non-zero delay
FollowUpScheduled ==
    /\ last.op = "Reconcile"
    /\ last.result.err = ""
    /\ last.result.requeueAfter > 0
    /\ last.failure = <<>>
    /\ last.applied # ""
    /\ "status" \in last.writes

\* C37: a reconciliation of a resource that runs before the delay scheduled
\* by the resource's previous reconciliation has elapsed (here: right after
\* it, the clock not having moved) does not advance the resource to another
\* state.
C37_NoAdvanceBeforeDelay ==
    [][ (FollowUpScheduled /\ clock' = clock /\ hist' # hist
            /\ last'.op = "Reconcile" /\ last'.kind = last.kind /\ last'.key = last.key)
          => ~(last'.failure = <<>> /\ "status" \in last'.writes
                 /\ last'.applied # last.applied) ]_vars

\* C37 for a forced delay: the same when the scheduled delay is the 30s an
\* override forces
C37_NoAdvanceBeforeForcedDelay ==
    [][ (FollowUpScheduled /\ last.result.requeueAfter = 30 /\ clock' = clock /\ hist' # hist
            /\ last'.op = "Reconcile" /\ last'.kind = last.kind /\ last'.key = last.key)
          => ~(last'.failure = <<>> /\ "status" \in last'.writes
                 /\ last'.applied # last.applied) ]_vars

-----------------------------------------------------------------------------
(* A ClusterDeployment whose claims may fail *)

\* the providers the ClusterDeployment of this world is labelled with
ErrorWorldProviders == {<<>>, <<"aws">>, <<"gcp">>}

\* no failure is configured for the ClusterDeployment, one that may or may
\* not fire for either claim kind; the ClusterDeployment and the claims carry
\* one correlation key
InitDepError ==
    /\ config = [DefaultConfig EXCEPT !["AccountClaim"].failures = <<EvenScenario>>,
                                      !["ProjectClaim"].failures = <<EvenScenario>>]
    /\ smConfig = config
    /\ overrides = <<>>
    /\ \E cloud \in ErrorWorldProviders :
         cds = [k \in CDKeys |-> IF k = <<"ns1", "c1">>
                                 THEN NewClusterDeployment(k, Labels(<<ClusterID>>, cloud))
                                 ELSE NoObj]
    /\ acs = [k \in ACKeys |-> IF k = <<"ns1", "a1">> THEN NewClaim(k, WithID, "", "") ELSE NoObj]
    /\ pcs = [k \in PCKeys |-> IF k = <<"ns1", "p1">> THEN NewClaim(k, WithID, "", "") ELSE NoObj]
    /\ secrets = {}
    /\ clock = StartTime
    /\ hist = [r \in Resources |-> <<>>]
    /\ last = [op |-> "NewEngine"]
    /\ calls = NoCalls

NextDepError ==
    \/ ReconcileClusterDeployment(<<"ns1", "c1">>)
    \/ ReconcileAccountClaim(<<"ns1", "a1">>)
    \/ ReconcileProjectClaim(<<"ns1", "p1">>)

SpecDepError == InitDepError /\ [][NextDepError]_vars

-----------------------------------------------------------------------------
(* Properties of a ClusterDeployment whose claim has failed *)

\* the claims of the store that the dependency check of cd looks for: those
\* of the kind the provider label selects, in cd's namespace, with cd's
\* correlation key
ClaimsCheckedFor(cd, ac, pc) ==
    LET cloudProvider == Lookup(cd.labels, LabelCloudProvider)
        id == Lookup(cd.labels, LabelID)
        mine(store) == {c \in InNamespace(store, cd.ns) : Lookup(c.labels, LabelID) = id}
    IN  (IF config["ClusterDeployment"].dependsOnAccountClaim /\ cloudProvider \in {"aws", ""}
         THEN mine(ac) ELSE {})
        \cup
        (IF config["ClusterDeployment"].dependsOnProjectClaim /\ cloudProvider = "gcp"
         THEN mine(pc) ELSE {})

\* cd waits for its dependencies, and the claim with its correlation key is
\* in the Error state
BlockedByError(cd, ac, pc) ==
    /\ cd.exists /\ ~CDSkip(cd)
    /\ LabelID \in DOMAIN cd.labels
    /\ ShouldWaitForDependencies(smConfig["ClusterDeployment"])
    /\ ClaimsCheckedFor(cd, ac, pc) # {}
    /\ \A c \in ClaimsCheckedFor(cd, ac, pc) : c.state = ClaimStatusError

TheKey == <<"ns1", "c1">>

\* C38: once the claim with a ClusterDeployment's correlation key is in the
\* Error state it stays there, and every reconciliation of the
\* ClusterDeployment from then on finds its dependencies not ready, writes
\* nothing, applies neither a state nor a failure, returns no error and
\* schedules a retry after 2s (after 5s when the listing of the claims
\* failed): the ClusterDeployment stays as it is and keeps being requeued.
C38_ErrorClaimBlocksForever ==
    [][ BlockedByError(cds[TheKey], acs, pcs) =>
          /\ BlockedByError(cds'[TheKey], acs', pcs')
          /\ cds' = cds
          /\ hist'[TheCD] = hist[TheCD]
          /\ (last'.op = "Reconcile" /\ last'.kind = "ClusterDeployment" /\ last' # last
                /\ last'.result.err # "get")
               => /\ last'.dep # <<>>
                  /\ ~last'.dep[1].ready
                  /\ last'.result = Result(IF last'.dep[1].listErr THEN 5 ELSE 2, "")
                  /\ last'.failure = <<>> /\ last'.next = <<>>
                  /\ last'.writes = {} ]_vars

\* C38 happens: the ClusterDeployment was reconciled while its claim was in
\* the Error state, and was told to wait 2s
C38_Witness ==
    /\ last.op = "Reconcile" /\ last.kind = "ClusterDeployment"
    /\ BlockedByError(cds[TheKey], acs, pcs)
    /\ last.dep # <<>> /\ ~last.dep[1].ready
    /\ last.result = Result(2, "")
    /\ hist[TheCD] = <<>>

-----------------------------------------------------------------------------
(* Properties of a Ready claim and its credential secret *)

\* the claims of the store
StoredClaims == {acs[k] : k \in ACKeys} \cup {pcs[k] : k \in PCKeys}

\* a claim that is stored in Ready and names a credential secret that does
\* not exist
ReadyWithoutSecret(claim) ==
    /\ claim.exists
    /\ claim.state = ClaimStatusReady
    /\ claim.secretName # ""
    /\ <<claim.secretNamespace, claim.secretName>> \notin secrets

\* C39: in every reachable state, the credential secret named by a claim
\* that is stored in state Ready exists in the store.
C39_ReadyImpliesSecret ==
    \A claim \in StoredClaims : ~ReadyWithoutSecret(claim)

\* what holds instead: a claim that is Ready without its secret is never
\* given the secret by a later reconciliation, since a Ready claim is skipped
C39_MissingSecretNeverCreated ==
    [][ (\E claim \in StoredClaims : ReadyWithoutSecret(claim)) => secrets' = secrets ]_vars

\* the part of C39 that holds: a reconciliation that applied Ready and
\* returned no error leaves the secret in the store
C39_SuccessLeavesSecret ==
    (ReachedSecretCreation /\ last.result.err = "") => LastSecretRef \in secrets

\* the spec update failed after Ready was stored: the claim is Ready, its
\* secret does not exist, and the next reconciliation skips the claim
ReadyAndSkippedWithoutSecret ==
    /\ last.op = "Reconcile" /\ last.kind \in ClaimKinds
    /\ ReadyWithoutSecret(last.pre)
    /\ ~last.consulted
    /\ last.result = Result(0, "")
    /\ last.writes = {}

-----------------------------------------------------------------------------
(* Properties of the override a route stores *)

\* the number of settings an override makes
Settings(o) ==
    (IF o.delaySeconds # <<>> THEN 1 ELSE 0) + (IF o.forceFail # <<>> THEN 1 ELSE 0)
        + (IF o.forceSuccess THEN 1 ELSE 0)

\* C40: after a request to one of the three override routes, the override
\* stored for the resource is exactly the one the request built, which makes
\* exactly one setting (a delay, a forced failure or a forced success);
\* nothing of the override stored for the resource before remains: after a
\* delay request the engine forces neither failure nor success for the
\* resource and answers ShouldFail from the configured scenarios alone, and
\* after a failure or success request it forces no delay.
C40_OverrideReplacedWholesale ==
    [][ (last'.op = "SetResourceOverride" /\ overrides' # overrides) =>
          LET key == last'.key
              o == overrides'[key]
          IN  /\ key \in DOMAIN overrides'
              /\ o = last'.override
              /\ Settings(o) = 1
              /\ \A rt \in RouteTypes :
                    key = makeKey(rt, Targeted[1], Targeted[2]) =>
                       /\ o.delaySeconds # <<>> =>
                             \A rolls \in RollSeqs(config', rt) :
                                 ShouldFail(overrides', config', rt, Targeted[1], Targeted[2], rolls)
                                    = Probabilistic(ScenariosOf(config', rt), rolls)
                       /\ o.delaySeconds = <<>> =>
                             \A d \in NominalDurations :
                                 GetTransitionDelay(overrides', rt, Targeted[1], Targeted[2], d) = d ]_vars

\* C40 happens: a forced failure was set for the ClusterDeployment and
\* applied to it by a reconciliation (no scenario is configured), then a
\* delay was set for it, and the stored override forces no failure any more
C40_Witness ==
    /\ config = DefaultConfig
    /\ \E i \in 1..Len(hist[<<"ClusterDeployment", Targeted[1], Targeted[2]>>]) :
          hist[<<"ClusterDeployment", Targeted[1], Targeted[2]>>][i] = FailureMark
    /\ last.op = "SetResourceOverride"
    /\ last.key = ReconcilerKey
    /\ last.override.delaySeconds = <<30>>
    /\ overrides[ReconcilerKey] = ResourceOverride(Targeted[2], <<30>>, <<>>, FALSE)

====
